---- MODULE Spec2Model ----
(***************************************************************************)
(* Per-call session of the telephony voice agent (CallHandler), with the   *)
(* recognizer, language-model and synthesis services it drives.            *)
(*                                                                         *)
(* Time is counted in units of 100 ms.  The wall clock is kept relative:   *)
(* timeSinceAudio is Date.now() - lastAudioSentTime, saturated at          *)
(* echoWindow (the code only compares it with echoWindow), and every       *)
(* pending setTimeout carries the time left before it is due.              *)
(*                                                                         *)
(* Texts are sequences of one-character strings so that trim() and         *)
(* length are computed, not assumed.                                       *)
(***************************************************************************)
EXTENDS Integers, Sequences, FiniteSets, TLC

(* ------------------------------ bounds --------------------------------- *)
\* WebSocket connections opened to the synthesis service
MaxSocks == 2
\* setTimeout calls made by handleTranscript
MaxTimers == 3
\* the same two, in the smaller runs
MaxSmallSocks == 1
MaxSmallTimers == 2
\* setTimeout calls in the long conversation
MaxTurns == 11
\* setTimeout calls in the runs with teardown
MaxTeardownTimers == 1
\* calls of cleanup() that are told apart
MaxCleanups == 2

(* ------------------------- program constants --------------------------- *)
\* part_001:102  const echoWindow = 4000
echoWindow == 40
\* part_001:137  setTimeout(..., 500)
silenceDelay == 5
\* part_001:120  setTimeout(..., 300)
interruptDelay == 3
\* part_001:146  trimmed.length < 3
minInterruptLength == 3
\* part_001:179  conversationHistory.length > 20
historyCap == 20
\* part_001:272  sampleRate: 8000
declaredSampleRate == 8000
\* routes/plivo.ts:27  contentType="audio/x-l16;rate=8000"
negotiatedSampleRate == 8000
negotiatedContentType == "audio/x-l16"
\* part_004:148  resampleLanczos(heypixaAudio, 32000, 16000, 3)
heypixaSourceRate == 32000
\* part_004:148 / part_004:162
plivoTargetRate == 16000
\* elevenlabs.ts:27  output_format=pcm_16000
elevenlabsSourceRate == 16000
\* part_004:151  Buffer.alloc(3200, 0)
silencePaddingBytes == 3200
\* generate(conversationHistory, userMessage, maxRetries = 3) (part_006:24)
maxRetries == 3
\* setTimeout(() => reject(...), 10000) (deepgram.ts:23-25), in units of 100 ms
connectTimeout == 100
\* samples in one synthesized chunk delivered by the service (16-bit mono)
chunkSamples == 64
\* longest buffer, in whole samples, given to the audio utilities
MaxSamples == 4
\* longest transcript and longest agent text given to the similarity check
MaxTranscriptLen == 5
MaxAgentLen == 4

(* ------------------------------- texts --------------------------------- *)
Empty == <<>>
Blank == <<" ">>
Short == <<" ", "o", "k">>
Hey == <<"h", "e", "y">>
Texts == {Empty, Blank, Short, Hey}
\* config.openai.systemPrompt
systemPrompt == <<"s">>
\* what the language model answers
Reply == <<"H", "e", "y">>
\* the reply of generate() when every attempt was rate limited
\* (part_006:109), shortened
Fallback == <<"m", "a", "a", "f">>

\* session.streamId before 'start' (part_001:38-39) and what 'start' carries
Unset == <<>>
StartStreamId == <<"i", "d">>

IsSpace(ch) == ch = " "

RECURSIVE TrimStart(_)
TrimStart(t) ==
  IF t = <<>> THEN <<>>
  ELSE IF IsSpace(Head(t)) THEN TrimStart(Tail(t)) ELSE t

RECURSIVE TrimEnd(_)
TrimEnd(t) ==
  IF t = <<>> THEN <<>>
  ELSE IF IsSpace(t[Len(t)]) THEN TrimEnd(SubSeq(t, 1, Len(t) - 1)) ELSE t

\* String.prototype.trim
Trim(t) == TrimEnd(TrimStart(t))

\* String.prototype.toLowerCase on the letters in use
ToLowerChar(ch) ==
  CASE ch = "H" -> "h"
    [] ch = "O" -> "o"
    [] ch = "K" -> "k"
    [] OTHER -> ch

ToLower(t) == [i \in 1..Len(t) |-> ToLowerChar(t[i])]

\* String.prototype.includes
Includes(t, sub) ==
  \E i \in 0..(Len(t) - Len(sub)) : SubSeq(t, i + 1, i + Len(sub)) = sub

\* JavaScript truthiness of a string
Truthy(t) == t # <<>>

\* the index of the first white space of t, Len(t) + 1 when there is none
FirstSpace(t) ==
  IF \E i \in 1..Len(t) : IsSpace(t[i])
  THEN CHOOSE i \in 1..Len(t) :
         IsSpace(t[i]) /\ \A j \in 1..(i - 1) : ~IsSpace(t[j])
  ELSE Len(t) + 1

\* String.prototype.split(/\s+/): the pieces between the runs of white
\* space; a text that starts or ends with white space has an empty first or
\* last piece
RECURSIVE Split(_)
Split(t) ==
  IF FirstSpace(t) > Len(t)
  THEN << t >>
  ELSE << SubSeq(t, 1, FirstSpace(t) - 1) >>
         \o Split(TrimStart(SubSeq(t, FirstSpace(t), Len(t))))

\* Array.prototype.slice(0, end)
Slice(pieces, end) ==
  SubSeq(pieces, 1, IF Len(pieces) < end THEN Len(pieces) ELSE end)

\* Array.prototype.join(' ')
RECURSIVE Join(_)
Join(pieces) ==
  IF pieces = <<>> THEN <<>>
  ELSE IF Len(pieces) = 1 THEN pieces[1]
  ELSE pieces[1] \o << " " >> \o Join(Tail(pieces))

\* isSimilar without the test of the length of the joined words
isSimilar_AnyLength(transcript, agentText) ==
  \/ Includes(agentText, transcript)
  \/ Includes(agentText, Join(Slice(Split(transcript), 3)))

\* CallHandler.isSimilar (call-handler.ts:390-399)
isSimilar(transcript, agentText) ==
  IF Includes(agentText, transcript) THEN TRUE
  ELSE LET transcriptWords == Join(Slice(Split(transcript), 3))
       IN Len(transcriptWords) > 3 /\ Includes(agentText, transcriptWords)

VARIABLES
  provider,             \* config.tts.provider
  lastFire,             \* what respond() did in the latest timer callback (the code keeps no such mark)
  streamId,             \* session.streamId, and session.callId set with it
  startSent,            \* the transport has sent 'start' (the code keeps no such mark)
  currentAgentText,     \* what the agent is saying (call-handler.ts:255)
  lastTranscript,       \* a transcript handed to the similarity check
  similar,              \* what isSimilar last returned for the two
  audioIn,              \* a buffer handed to the audio utilities
  audioOut,             \* what the utility last applied made of it
  plivoReadyState,      \* plivoWs.readyState
  registered,           \* the wss handler attached ws.on('message'/'close'/'error')
  cleanups,             \* calls of cleanup() so far (the code keeps no count)
  dgState,              \* recognizer connection
  dgTimeout,            \* time left on the timer of DeepgramSTT.connect
  dgSent,               \* what was written to the recognizer connection
  conversationHistory,  \* session.conversationHistory
  isProcessing,         \* session.isProcessing
  transcriptBuffer,
  silenceTimeout,       \* handle of the last timer stored (0 = null)
  timers,               \* timers armed and neither fired nor cleared
  armed,                \* setTimeout calls made so far
  isSpeaking,
  timeSinceAudio,       \* Date.now() - lastAudioSentTime, saturated
  tts,                  \* CallHandler.tts and the fields of that instance
  socks,                \* WebSockets created by the TTS instances
  calls,                \* admitted respond() invocations, in dispatch order
  out                   \* what was written to the telephony socket

vars == <<provider, lastFire, streamId, startSent, currentAgentText, lastTranscript, similar, audioIn, audioOut, dgSent, dgTimeout, cleanups, plivoReadyState, registered, dgState, conversationHistory,
          isProcessing, transcriptBuffer, silenceTimeout, timers, armed,
          isSpeaking, timeSinceAudio, tts, socks, calls, out>>


\* plivoWs.readyState === WebSocket.OPEN
plivoOpen == plivoReadyState = "OPEN"

(* ----------------------------- audio ----------------------------------- *)
\* A synthesized chunk is described by its sample rate and sample count; the
\* sample values themselves play no part in the session logic.
HeyPixaChunk == [rate |-> heypixaSourceRate, samples |-> chunkSamples]
ElevenLabsChunk == [rate |-> elevenlabsSourceRate, samples |-> chunkSamples]

\* resampleLanczos: rate and length of the result (part_004:48-55)
resampleLanczos(buf, sourceRate, targetRate) ==
  IF sourceRate = targetRate THEN buf
  ELSE [rate |-> targetRate,
        samples |-> (buf.samples * targetRate) \div sourceRate]

\* prepareAudioForPlivo (part_004:146-155): resample 32 kHz to 16 kHz and
\* append 3200 zero bytes
prepareAudioForPlivo(heypixaAudio) ==
  LET resampled == resampleLanczos(heypixaAudio, heypixaSourceRate, plivoTargetRate)
  IN [rate |-> resampled.rate,
      samples |-> resampled.samples + silencePaddingBytes \div 2,
      padSamples |-> silencePaddingBytes \div 2]

\* prepareElevenLabsAudioForPlivo (part_004:161-169): no resampling, the
\* input is taken to be at 16 kHz already
prepareElevenLabsAudioForPlivo(elevenLabsAudio) ==
  [rate |-> elevenLabsAudio.rate,
   samples |-> elevenLabsAudio.samples + silencePaddingBytes \div 2,
   padSamples |-> silencePaddingBytes \div 2]

(* ---------------------- audio, sample by sample ------------------------ *)
\* A Buffer of PCM16 audio: its whole samples and whether one more byte
\* follows them.
SampleValues == {-32768, 0, 32767}

Buffers ==
  [samples : UNION {[1..n -> SampleValues] : n \in 0..MaxSamples},
   odd : BOOLEAN]

EmptyBuffer == [samples |-> <<>>, odd |-> FALSE]

Rates == {8000, 16000, 32000}

\* the result of a utility: the buffer it returns, the zero bytes appended
\* to it, or the fact that it threw
Output(op, sourceRate, targetRate, body, padBytes) ==
  [op |-> op, sourceRate |-> sourceRate, targetRate |-> targetRate,
   body |-> body, padBytes |-> padBytes, thrown |-> FALSE]

Thrown(op, sourceRate, targetRate) ==
  [op |-> op, sourceRate |-> sourceRate, targetRate |-> targetRate,
   body |-> EmptyBuffer, padBytes |-> 0, thrown |-> TRUE]

NoOutput == Output("none", 0, 0, EmptyBuffer, 0)

RECURSIVE GCD(_, _)
GCD(a, b) == IF b = 0 THEN a ELSE GCD(b, a % b)

\* Math.max(-32768, Math.min(32767, x)) (part_004:84, 120)
Clamp(x) == IF x < -32768 THEN -32768 ELSE IF x > 32767 THEN 32767 ELSE x

\* lanczosKernel (part_004:15-24) at a whole distance: 1 at 0, 0 from a on,
\* and sin(pi x) / (pi x) in between, which is 0 (of the order of 1e-17 in
\* floating point, removed by the rounding of line 84)
\* a kernel that is 1 at the neighbouring samples too
lanczosKernel_Neighbours(x, a) == IF x \in {-1, 0, 1} THEN 1 ELSE 0

lanczosKernel(x, a) == IF x = 0 THEN 1 ELSE 0

\* the sum of f over the integers lo..hi
RECURSIVE SumOver(_, _, _)
SumOver(f, lo, hi) == IF lo > hi THEN 0 ELSE f[lo] + SumOver(f, lo + 1, hi)

\* resampleLanczos (part_004:42-90) on the samples, for a source rate that
\* is a multiple of the target rate, so that every srcCenter is whole.
\* With one byte after the last whole sample inputSamples is n + 1/2 and
\* the loop of lines 59-61 reads past the end of the buffer: readInt16LE
\* throws.
lanczosResampled(inputBuffer, sourceRate, targetRate) ==
  LET lanczosA == 3
      ratio == sourceRate \div targetRate
      inputSamples == Len(inputBuffer.samples)
      outputSamples == inputSamples \div ratio
      Sample(i) ==
        LET srcCenter == i * ratio
            srcStart == srcCenter - lanczosA + 1
            srcEnd == srcCenter + lanczosA
            Window == {j \in srcStart..srcEnd : j >= 0 /\ j < inputSamples}
            weight == [j \in srcStart..srcEnd |->
                         IF j \in Window
                         THEN lanczosKernel(srcCenter - j, lanczosA) ELSE 0]
            sum == SumOver([j \in srcStart..srcEnd |->
                              IF j \in Window
                              THEN inputBuffer.samples[j + 1] * weight[j]
                              ELSE 0], srcStart, srcEnd)
            weightSum == SumOver(weight, srcStart, srcEnd)
            interpolated == IF weightSum > 0 THEN sum \div weightSum ELSE 0
        IN Clamp(interpolated)
  IN Output("lanczos", sourceRate, targetRate,
            [samples |-> [k \in 1..outputSamples |-> Sample(k - 1)],
             odd |-> FALSE], 0)

\* resampleLanczos without the test of lines 48-50
resampleLanczosPCM_NoShortcut(inputBuffer, sourceRate, targetRate) ==
  lanczosResampled(inputBuffer, sourceRate, targetRate)

resampleLanczosPCM(inputBuffer, sourceRate, targetRate) ==
  IF sourceRate = targetRate
  THEN Output("lanczos", sourceRate, targetRate, inputBuffer, 0)
  ELSE IF inputBuffer.odd THEN Thrown("lanczos", sourceRate, targetRate)
  ELSE lanczosResampled(inputBuffer, sourceRate, targetRate)

\* resamplePCM16Linear (part_004:96-126) on whole samples; srcIndex is
\* i * sourceRate / targetRate, kept as a fraction, and Math.round rounds a
\* half upwards
resamplePCM16Linear(inputBuffer, sourceRate, targetRate) ==
  IF sourceRate = targetRate
  THEN Output("linear", sourceRate, targetRate, inputBuffer, 0)
  ELSE
    LET g == GCD(sourceRate, targetRate)
        num == sourceRate \div g
        den == targetRate \div g
        inputSamples == Len(inputBuffer.samples)
        outputSamples == (inputSamples * den) \div num
        Sample(i) ==
          LET srcIndexFloor == (i * num) \div den
              srcIndexCeil == IF srcIndexFloor + 1 < inputSamples - 1
                              THEN srcIndexFloor + 1 ELSE inputSamples - 1
              fraction == (i * num) % den
              sample1 == inputBuffer.samples[srcIndexFloor + 1]
              sample2 == inputBuffer.samples[srcIndexCeil + 1]
              interpolated ==
                (2 * (sample1 * den + (sample2 - sample1) * fraction) + den)
                  \div (2 * den)
          IN Clamp(interpolated)
    IN Output("linear", sourceRate, targetRate,
              [samples |-> [k \in 1..outputSamples |-> Sample(k - 1)],
               odd |-> FALSE], 0)

\* prepareAudioForPlivo with half the padding
prepareAudioForPlivoPCM_ShortPadding(heypixaAudio) ==
  LET resampled ==
        resampleLanczosPCM(heypixaAudio, heypixaSourceRate, plivoTargetRate)
  IN IF resampled.thrown
     THEN Thrown("heypixa", heypixaSourceRate, plivoTargetRate)
     ELSE Output("heypixa", heypixaSourceRate, plivoTargetRate,
                 resampled.body, silencePaddingBytes \div 2)

\* prepareAudioForPlivo (part_004:146-155) before bufferToBase64: the
\* resampled buffer and the 3200 zero bytes concatenated to it
prepareAudioForPlivoPCM(heypixaAudio) ==
  LET resampled ==
        resampleLanczosPCM(heypixaAudio, heypixaSourceRate, plivoTargetRate)
  IN IF resampled.thrown
     THEN Thrown("heypixa", heypixaSourceRate, plivoTargetRate)
     ELSE Output("heypixa", heypixaSourceRate, plivoTargetRate,
                 resampled.body, silencePaddingBytes)

\* prepareElevenLabsAudioForPlivo (part_004:161-169) before bufferToBase64
prepareElevenLabsAudioForPlivoPCM(elevenLabsAudio) ==
  Output("elevenlabs", elevenlabsSourceRate, plivoTargetRate,
         elevenLabsAudio, silencePaddingBytes)

\* speak(): const convertAudio = ttsProvider === 'elevenlabs' ? ... (part_001:207)
convertAudio(prov, audio) ==
  IF prov = "elevenlabs" THEN prepareElevenLabsAudioForPlivo(audio)
  ELSE prepareAudioForPlivo(audio)

\* what the service of the given provider emits
NativeChunk(prov) == IF prov = "elevenlabs" THEN ElevenLabsChunk ELSE HeyPixaChunk

(* --------------------- the mutable world of a handler ------------------ *)
\* Handlers call one another and write the same fields several times in one
\* run-to-completion step, so each is written as a function on the record of
\* the fields it can touch; an action applies the composed function.
World ==
  [tts |-> tts, socks |-> socks, calls |-> calls,
   isSpeaking |-> isSpeaking, isProcessing |-> isProcessing,
   out |-> out, timeSinceAudio |-> timeSinceAudio,
   conversationHistory |-> conversationHistory]

SetWorld(W) ==
  /\ tts' = W.tts
  /\ socks' = W.socks
  /\ calls' = W.calls
  /\ isSpeaking' = W.isSpeaking
  /\ isProcessing' = W.isProcessing
  /\ out' = W.out
  /\ timeSinceAudio' = W.timeSinceAudio
  /\ conversationHistory' = W.conversationHistory

\* this.tts = null.  An instance the handler has dropped is reachable only
\* from the listeners of its sockets and nothing reads its fields again, so
\* only the fields of the current instance are kept; cur marks the sockets
\* whose listeners still write the current instance.
NullTts == [live |-> FALSE, ws |-> 0, isConnected |-> FALSE, isConfigured |-> FALSE]

\* new HeyPixaTTS() / new ElevenLabsTTS() (part_005:117-120, elevenlabs.ts:11-13)
NewTts == [live |-> TRUE, ws |-> 0, isConnected |-> FALSE, isConfigured |-> FALSE]

DropTts(W) ==
  [W EXCEPT !.tts = NullTts,
            !.socks = [s \in DOMAIN W.socks |-> [W.socks[s] EXCEPT !.cur = FALSE]]]

\* this.isConnected = ...; this.isConfigured = ... written by a listener of
\* socket s
SetFlags(W, s, conn, conf) ==
  IF W.socks[s].cur
  THEN [W EXCEPT !.tts.isConnected = conn, !.tts.isConfigured = conf]
  ELSE W

\* a socket that reached CLOSED emits nothing more; only a connect() still
\* waiting on it is remembered
ClosedSock(sk) ==
  [st |-> "closed", cur |-> FALSE, prom |-> sk.prom,
   call |-> IF sk.prom = "pending" THEN sk.call ELSE 0,
   synth |-> 0, configured |-> FALSE, closedByClient |-> FALSE]

SettleSock(sk) == [sk EXCEPT !.prom = "done", !.call = 0]

\* a respond() invocation that has returned; what it carried is forgotten
DoneCall ==
  [msg |-> <<>>, messages |-> <<>>, pc |-> "done", origin |-> "none",
   stale |-> FALSE, attempt |-> 0, waited |-> 0, requests |-> 0]

\* respond(): finally { this.session.isProcessing = false } (part_001:190-192)
RespondFinally(W, c) ==
  [W EXCEPT !.calls[c] = DoneCall, !.isProcessing = FALSE]

\* ws.close() called on a socket that is still CONNECTING: the library aborts
\* the handshake and emits 'error' then 'close' before any other event is
\* processed.  The 'error' handler (part_005:185-192, elevenlabs.ts:91-97)
\* clears the flags, calls onError (isSpeaking = false) and rejects the
\* pending connect(); the rejection runs speak()'s catch (part_001:253-259),
\* whose own tts?.close() finds no socket left to close.
AbortHandshake(W, s) ==
  LET c == W.socks[s].call
      pending == W.socks[s].prom = "pending"
      W1 == SetFlags(W, s, FALSE, FALSE)
      W2 == [W1 EXCEPT !.socks[s] = ClosedSock(SettleSock(@)),
                       !.isSpeaking = FALSE]
  IN IF pending THEN RespondFinally(DropTts(W2), c) ELSE W2

\* WebSocket.close() of the ws library
SockClose(W, s) ==
  CASE W.socks[s].st = "connecting" -> AbortHandshake(W, s)
    [] W.socks[s].st = "open" ->
         [W EXCEPT !.socks[s].st = "closing", !.socks[s].closedByClient = TRUE]
    [] OTHER -> W

\* close() without this.ws = null
TtsClose_KeepsHandle(W) ==
  LET s == W.tts.ws
      W1 == [W EXCEPT !.tts.isConnected = FALSE,
                      !.tts.isConfigured = FALSE]
  IN IF s # 0 THEN SockClose(W1, s) ELSE W1

\* HeyPixaTTS.close (part_005:215-222) / ElevenLabsTTS.close (elevenlabs.ts:127-133)
TtsClose(W) ==
  LET s == W.tts.ws
      W1 == [W EXCEPT !.tts.ws = 0,
                      !.tts.isConnected = FALSE,
                      !.tts.isConfigured = FALSE]
  IN IF s # 0 THEN SockClose(W1, s) ELSE W1

\* this.tts?.close()
TtsCloseOpt(W) == IF W.tts.live THEN TtsClose(W) ELSE W

NoMessage == [event |-> "none"]

\* plivoWs.send(JSON.stringify(m)): the last frame written, the parity of
\* the number of frames written, and whether an audio frame was ever written
\* (the code keeps no such mark)
Send(o, m) ==
  [n |-> 1 - o.n, last |-> m, played |-> o.played \/ m.event = "playAudio"]

\* sendAudio without the readyState test of line 264
sendAudio_Unguarded(W, payload, s) ==
  [W EXCEPT !.timeSinceAudio = 0,
            !.out = Send(@, [event |-> "playAudio",
                             contentType |-> "audio/x-l16",
                             sampleRate |-> declaredSampleRate,
                             payload |-> payload,
                             afterClose |-> W.socks[s].closedByClient])]

\* sendAudio (part_001:263-276); s is the connection the chunk came from
sendAudio(W, payload, s) ==
  IF ~plivoOpen THEN W
  ELSE [W EXCEPT !.timeSinceAudio = 0,
                 !.out = Send(@, [event |-> "playAudio",
                                  contentType |-> "audio/x-l16",
                                  sampleRate |-> declaredSampleRate,
                                  payload |-> payload,
                                  afterClose |-> W.socks[s].closedByClient])]

\* stopSpeaking without the tts.close() of line 283
stopSpeaking_KeepsConnection(W) ==
  LET W1 == IF plivoOpen
            THEN [W EXCEPT !.out = Send(@, [event |-> "clearAudio"])]
            ELSE W
  IN [DropTts(W1) EXCEPT !.isSpeaking = FALSE, !.isProcessing = FALSE]

\* stopSpeaking (part_001:278-287)
stopSpeaking(W) ==
  LET W1 == IF plivoOpen
            THEN [W EXCEPT !.out = Send(@, [event |-> "clearAudio"])]
            ELSE W
      W2 == DropTts(TtsCloseOpt(W1))
  IN [W2 EXCEPT !.isSpeaking = FALSE, !.isProcessing = FALSE]

\* speak(): catch (error) { ... } (part_001:253-259), then respond's finally
SpeakCatch(W, c) ==
  LET W1 == [W EXCEPT !.isSpeaking = FALSE]
      W2 == DropTts(TtsCloseOpt(W1))
  IN RespondFinally(W2, c)

\* HeyPixaTTS.connect reuse test (part_005:126) / ElevenLabsTTS (elevenlabs.ts:19)
Ready(prov, ob) ==
  /\ ob.ws # 0
  /\ ob.isConnected
  /\ (prov = "heypixa" => ob.isConfigured)

\* speak() after `await this.tts.connect(...)` returned: this.tts.synthesize(text)
\* (part_001:247-252, part_005:202-213, elevenlabs.ts:106-125), then resolve()
\* and respond's finally.  this.tts is read again here and may be null or a
\* different instance from the one connect() was called on; ws.send throws
\* on a socket that is still CONNECTING and drops the frame on one that is
\* closing or closed.
SpeakContinue(W, c) ==
  IF ~W.tts.live THEN SpeakCatch(W, c)
  ELSE IF ~Ready(provider, W.tts) THEN SpeakCatch(W, c)
  ELSE CASE W.socks[W.tts.ws].st = "connecting" -> SpeakCatch(W, c)
         [] W.socks[W.tts.ws].st = "open" ->
              RespondFinally([W EXCEPT !.socks[W.tts.ws].synth = @ + 1], c)
         [] OTHER -> RespondFinally(W, c)

\* new WebSocket(endpoint) inside connect() called for respond invocation c
NewSock(c) ==
  [st |-> "connecting", cur |-> TRUE, prom |-> "pending", call |-> c,
   synth |-> 0, configured |-> FALSE, closedByClient |-> FALSE]

\* speak (part_001:195-261) up to and including the call of connect()
\* (part_005:122-135, elevenlabs.ts:15-36)
speak(W, c) ==
  IF W.isSpeaking THEN RespondFinally(W, c)
  ELSE
    LET W1 == [W EXCEPT !.isSpeaking = TRUE]
        W2 == IF ~W1.tts.live THEN [W1 EXCEPT !.tts = NewTts] ELSE W1
    IN IF Ready(provider, W2.tts)
       THEN SpeakContinue(W2, c)
       ELSE [W2 EXCEPT !.socks = Append(@, NewSock(c)),
                       !.tts.ws = Len(W2.socks) + 1,
                       !.calls[c].pc = "connect"]

\* speak() would have to open a connection
NeedsSocket(W) ==
  /\ ~W.isSpeaking
  /\ ~Ready(provider, W.tts)

(* ------------------------------ session -------------------------------- *)
\* shouldInterrupt (part_001:142-153)
shouldInterrupt(transcript) ==
  LET trimmed == Trim(transcript)
  IN ~(Len(trimmed) < minInterruptLength)

\* history of the requests: one still being generated when a barge-in or a
\* newer turn happens is marked (the code keeps no such mark)
Superseded(cs) ==
  [c \in DOMAIN cs |->
     IF cs[c].pc = "generate" THEN [cs[c] EXCEPT !.stale = TRUE] ELSE cs[c]]

\* generate() given only the new user text
Messages_WithoutHistory(history, userMessage) ==
  << [role |-> "system", content |-> systemPrompt],
     [role |-> "user", content |-> userMessage] >>

\* OpenAILLM.generate (part_006:26-30): the messages of the request, built
\* before the first await
Messages(history, userMessage) ==
  << [role |-> "system", content |-> systemPrompt] >>
    \o history
    \o << [role |-> "user", content |-> userMessage] >>

\* respond with the length test of shouldInterrupt applied to every turn
respond_ShortTurnRejected(W, userMessage, origin) ==
  IF W.isProcessing \/ W.isSpeaking \/ Len(Trim(userMessage)) < minInterruptLength
  THEN W
  ELSE [W EXCEPT !.isProcessing = TRUE,
                 !.calls = Append(Superseded(@),
                                  [msg |-> userMessage,
                                   messages |->
                                     Messages(W.conversationHistory, userMessage),
                                   pc |-> "generate",
                                   origin |-> origin,
                                   stale |-> FALSE,
                                   attempt |-> 0,
                                   waited |-> 0,
                                   requests |-> 1])]

\* respond (part_001:155-169) up to the first await: the guard, the busy mark
\* and the request handed to generate()
respond(W, userMessage, origin) ==
  IF W.isProcessing \/ W.isSpeaking \/ ~Truthy(Trim(userMessage)) THEN W
  ELSE [W EXCEPT !.isProcessing = TRUE,
                 !.calls = Append(Superseded(@),
                                  [msg |-> userMessage,
                                   messages |->
                                     Messages(W.conversationHistory, userMessage),
                                   pc |-> "generate",
                                   origin |-> origin,
                                   stale |-> FALSE,
                                   attempt |-> 0,
                                   waited |-> 0,
                                   requests |-> 1])]

\* the push without the trim of lines 179-181
PushHistory_NoTrim(h, userMessage, response) ==
  h \o << [role |-> "user", content |-> userMessage],
          [role |-> "assistant", content |-> response] >>

\* the trim keeping the first entries, slice(0, 20), instead of the last
PushHistory_KeepsOldest(h, userMessage, response) ==
  LET h1 == h \o << [role |-> "user", content |-> userMessage],
                     [role |-> "assistant", content |-> response] >>
  IN IF Len(h1) > historyCap THEN SubSeq(h1, 1, historyCap) ELSE h1

\* the trim off by one entry, slice(-19)
PushHistory_OddTail(h, userMessage, response) ==
  LET h1 == h \o << [role |-> "user", content |-> userMessage],
                     [role |-> "assistant", content |-> response] >>
  IN IF Len(h1) > historyCap
     THEN SubSeq(h1, Len(h1) - historyCap + 2, Len(h1))
     ELSE h1

\* conversationHistory.push(user, assistant) and slice(-20) (part_001:173-181)
PushHistory(h, userMessage, response) ==
  LET h1 == h \o << [role |-> "user", content |-> userMessage],
                     [role |-> "assistant", content |-> response] >>
  IN IF Len(h1) > historyCap
     THEN SubSeq(h1, Len(h1) - historyCap + 1, Len(h1))
     ELSE h1

\* clearTimeout(this.silenceTimeout)
ClearTimeout(ts, handle) == {t \in ts : t.id # handle}

MarkStale(W) == [W EXCEPT !.calls = Superseded(@)]

\* the session with lastAudioSentTime initialised to the time of construction
Init_ClockAtStart ==
  /\ provider \in {"heypixa", "elevenlabs"}
  /\ lastFire = "none"
  /\ streamId = Unset
  /\ startSent = FALSE
  /\ currentAgentText = <<>>
  /\ lastTranscript = <<>>
  /\ similar = "none"
  /\ plivoReadyState = "OPEN"
  /\ registered = FALSE
  /\ cleanups = 0
  /\ dgState = "connecting"
  /\ dgTimeout = connectTimeout
  /\ audioIn = EmptyBuffer
  /\ audioOut = NoOutput
  /\ dgSent = [n |-> 0, last |-> "none"]
  /\ conversationHistory = <<>>
  /\ isProcessing = FALSE
  /\ transcriptBuffer = <<>>
  /\ silenceTimeout = 0
  /\ timers = {}
  /\ armed = 0
  /\ isSpeaking = FALSE
  /\ timeSinceAudio = 0
  /\ tts = NullTts
  /\ socks = <<>>
  /\ calls = <<>>
  /\ out = [n |-> 0, last |-> NoMessage, played |-> FALSE]

\* the constructor (part_001:21-43); lastAudioSentTime = 0 puts the first
\* Date.now() - lastAudioSentTime far beyond the echo window
Init ==
  /\ provider \in {"heypixa", "elevenlabs"}
  /\ lastFire = "none"
  /\ streamId = Unset
  /\ startSent = FALSE
  /\ currentAgentText = <<>>
  /\ lastTranscript = <<>>
  /\ similar = "none"
  /\ plivoReadyState = "OPEN"
  /\ registered = FALSE
  /\ cleanups = 0
  /\ dgState = "connecting"
  /\ dgTimeout = connectTimeout
  /\ audioIn = EmptyBuffer
  /\ audioOut = NoOutput
  /\ dgSent = [n |-> 0, last |-> "none"]
  /\ conversationHistory = <<>>
  /\ isProcessing = FALSE
  /\ transcriptBuffer = <<>>
  /\ silenceTimeout = 0
  /\ timers = {}
  /\ armed = 0
  /\ isSpeaking = FALSE
  /\ timeSinceAudio = echoWindow
  /\ tts = NullTts
  /\ socks = <<>>
  /\ calls = <<>>
  /\ out = [n |-> 0, last |-> NoMessage, played |-> FALSE]

\* DeepgramSTT Open handler (deepgram.ts:38-43): the timer is cleared,
\* initialize() returns and the server attaches the transport handlers
\* (part_003:131-145)
DeepgramOpen ==
  /\ dgState = "connecting"
  /\ dgState' = "open"
  /\ dgTimeout' = 0
  /\ registered' = TRUE
  /\ UNCHANGED <<provider, lastFire, streamId, startSent, currentAgentText, lastTranscript, similar, audioIn, audioOut, dgSent, cleanups, plivoReadyState, conversationHistory, isProcessing,
                 transcriptBuffer, silenceTimeout, timers, armed,
                 isSpeaking, timeSinceAudio, tts, socks, calls, out>>

\* the catch of the server's connection handler (part_003:146-149), run
\* when initialize() rejects: ws.close(); the handlers of part_003:131-145
\* are never attached
InitializeFailed_KeepsTransport(state) == state

InitializeFailed(state) == IF state = "OPEN" THEN "CLOSING" ELSE state

\* the timer of connect() fires (deepgram.ts:23-25): reject.  Nothing closes
\* the recognizer connection, which is left to itself.
DeepgramTimeout ==
  /\ dgState = "connecting"
  /\ dgTimeout = 0
  /\ dgState' = "timedout"
  /\ plivoReadyState' = InitializeFailed(plivoReadyState)
  /\ UNCHANGED <<provider, lastFire, streamId, startSent, currentAgentText, lastTranscript, similar, audioIn, audioOut, dgSent, dgTimeout, cleanups, registered, conversationHistory,
                 isProcessing, transcriptBuffer, silenceTimeout, timers,
                 armed, isSpeaking, timeSinceAudio, tts, socks, calls, out>>

\* the recognizer connection opens after the timer of connect() has fired:
\* the Open handler (deepgram.ts:38-43) sets isConnected, clears a timer
\* that is spent and resolves a promise that is rejected already.  The
\* server's catch has closed the transport and dropped the handler
\* (part_003:146-149); nothing holds the connection or calls close().
DeepgramLateOpen ==
  /\ dgState = "timedout"
  /\ dgState' = "stray"
  /\ UNCHANGED <<provider, lastFire, streamId, startSent, currentAgentText, lastTranscript, similar, audioIn, audioOut, dgSent, dgTimeout,
                 cleanups, plivoReadyState, registered, conversationHistory,
                 isProcessing, transcriptBuffer, silenceTimeout, timers,
                 armed, isSpeaking, timeSinceAudio, tts, socks, calls, out>>

\* DeepgramSTT Error handler before the connection opened
\* (deepgram.ts:55-62): the timer is cleared, connect() rejects and
\* onError logs (part_001:50)
DeepgramConnectError ==
  /\ dgState = "connecting"
  /\ dgState' = "failed"
  /\ dgTimeout' = 0
  /\ plivoReadyState' = InitializeFailed(plivoReadyState)
  /\ UNCHANGED <<provider, lastFire, streamId, startSent, currentAgentText, lastTranscript, similar, audioIn, audioOut, dgSent, cleanups, registered, conversationHistory,
                 isProcessing, transcriptBuffer, silenceTimeout, timers,
                 armed, isSpeaking, timeSinceAudio, tts, socks, calls, out>>

\* DeepgramSTT Error handler on the open connection (deepgram.ts:55-62):
\* isConnected is true, so nothing is rejected, and onError logs
\* (part_001:50)
DeepgramError ==
  /\ dgState = "open"
  /\ dgState' = "error"
  /\ UNCHANGED <<provider, lastFire, streamId, startSent, currentAgentText, lastTranscript, similar, audioIn, audioOut, dgSent, dgTimeout, cleanups, plivoReadyState, registered,
                 conversationHistory, isProcessing, transcriptBuffer,
                 silenceTimeout, timers, armed, isSpeaking, timeSinceAudio,
                 tts, socks, calls, out>>

\* DeepgramSTT Close handler (deepgram.ts:64-67): isConnected = false; the
\* connection object is kept until close() is called
DeepgramClose ==
  /\ dgState \in {"open", "error", "closing"}
  /\ dgState' = IF dgState = "closing" THEN "closed" ELSE "lost"
  /\ UNCHANGED <<provider, lastFire, streamId, startSent, currentAgentText, lastTranscript, similar, audioIn, audioOut, dgSent, dgTimeout, cleanups, plivoReadyState, registered,
                 conversationHistory, isProcessing, transcriptBuffer,
                 silenceTimeout, timers, armed, isSpeaking, timeSinceAudio,
                 tts, socks, calls, out>>

\* setTimeout returns a handle no live timer and no stored handle is using
FreshHandle ==
  CHOOSE h \in 1..(Cardinality(timers) + 2) :
    /\ h # silenceTimeout
    /\ \A t \in timers : t.id # h

\* No request is in flight and no synthesis is being set up.
Idle == ~isProcessing /\ \A c \in DOMAIN calls : calls[c].pc = "done"

\* bookkeeping on the pending timers: quiet marks a timer that was armed
\* while the session was idle and since whose arming turn detection has
\* accepted no transcript (the code keeps no such mark)
Disturbed(ts) == {[t EXCEPT !.quiet = FALSE] : t \in ts}

\* the test of line 132 without isFinal
ArmsSilence_AnyEvent(transcript, isFinal) == Truthy(Trim(transcript))

\* if (isFinal && transcript.trim()) (part_001:132)
ArmsSilence(transcript, isFinal) == isFinal /\ Truthy(Trim(transcript))

\* the timing gate applied only while the agent is marked as speaking
LikelyEcho_OnlyWhileSpeaking == isSpeaking /\ timeSinceAudio < echoWindow

\* if (timeSinceAudio < echoWindow) (part_001:101-104)
LikelyEcho == timeSinceAudio < echoWindow

\* handleTranscript (part_001:97-139), reached through the recognizer's
\* Transcript handler, which drops blank transcripts (deepgram.ts:45-53)
handleTranscript(transcript, isFinal, speechFinal) ==
  IF LikelyEcho
  THEN UNCHANGED vars
  ELSE IF isSpeaking
  THEN IF speechFinal /\ shouldInterrupt(transcript)
       THEN /\ armed' = armed + 1
            /\ SetWorld(MarkStale(stopSpeaking(World)))
            /\ transcriptBuffer' = transcript
            /\ silenceTimeout' = FreshHandle
            /\ timers' = Disturbed(timers) \cup
                 {[id |-> FreshHandle, left |-> interruptDelay,
                   kind |-> "interrupt", quiet |-> FALSE]}
            /\ UNCHANGED <<provider, lastFire, streamId, startSent, currentAgentText, lastTranscript, similar, audioIn, audioOut, dgSent, dgTimeout, cleanups, plivoReadyState, registered, dgState>>
       ELSE UNCHANGED vars
  ELSE /\ transcriptBuffer' = transcript
       /\ IF ArmsSilence(transcript, isFinal)
          THEN /\ armed' = armed + 1
               /\ silenceTimeout' = FreshHandle
               /\ timers' = Disturbed(ClearTimeout(timers, silenceTimeout)) \cup
                    {[id |-> FreshHandle, left |-> silenceDelay,
                      kind |-> "silence", quiet |-> Idle]}
          ELSE /\ timers' = Disturbed(ClearTimeout(timers, silenceTimeout))
               /\ UNCHANGED <<silenceTimeout, armed>>
       /\ UNCHANGED <<provider, lastFire, streamId, startSent, currentAgentText, lastTranscript, similar, audioIn, audioOut, dgSent, dgTimeout, cleanups, plivoReadyState, registered, dgState,
                      conversationHistory, isProcessing, isSpeaking,
                      timeSinceAudio, tts, socks, calls, out>>

\* the recognizer's handler with every event passed on as an end of speech
DeepgramTranscript_AlwaysEndOfSpeech(transcript, isFinal, speechFinal) ==
  /\ dgState \in {"open", "closing"}
  /\ IF Truthy(Trim(transcript))
     THEN handleTranscript(transcript, isFinal, TRUE)
     ELSE UNCHANGED vars

DeepgramTranscript(transcript, isFinal, speechFinal) ==
  /\ dgState \in {"open", "closing"}
  /\ IF Truthy(Trim(transcript))
     THEN handleTranscript(transcript, isFinal, speechFinal)
     ELSE UNCHANGED vars

\* what the guard of respond() (part_001:156) makes of a call
RespondOutcome(W, userMessage) ==
  IF ~Truthy(Trim(userMessage)) THEN "empty"
  ELSE IF W.isProcessing \/ W.isSpeaking THEN "rejected"
  ELSE "accepted"

\* the callback without the clearing of the buffer of a turn it rejected
TimerFire_KeepsRejected(t) ==
  /\ t \in timers
  /\ t.left = 0
  /\ SetWorld(respond(World, transcriptBuffer, t.kind))
  /\ lastFire' = RespondOutcome(World, transcriptBuffer)
  /\ transcriptBuffer' = IF RespondOutcome(World, transcriptBuffer) = "rejected"
                         THEN transcriptBuffer ELSE <<>>
  /\ timers' = timers \ {t}
  /\ UNCHANGED <<provider, streamId, startSent, currentAgentText, lastTranscript, similar, audioIn, audioOut, dgSent, dgTimeout, cleanups, plivoReadyState, registered, dgState,
                 silenceTimeout, armed>>

\* the setTimeout callbacks (part_001:117-120 and 134-137)
TimerFire(t) ==
  /\ t \in timers
  /\ t.left = 0
  /\ SetWorld(respond(World, transcriptBuffer, t.kind))
  /\ lastFire' = RespondOutcome(World, transcriptBuffer)
  /\ transcriptBuffer' = <<>>
  /\ timers' = timers \ {t}
  /\ UNCHANGED <<provider, streamId, startSent, currentAgentText, lastTranscript, similar, audioIn, audioOut, dgSent, dgTimeout, cleanups, plivoReadyState, registered, dgState,
                 silenceTimeout, armed>>

\* Math.pow(2, attempt) * 1000 ms (part_006:51), in units of 100 ms
BackoffDelay(attempt) == 10 * 2^attempt

\* the requests waiting out a rate limit (part_006:53)
Backoffs == {c \in DOMAIN calls : calls[c].pc = "backoff"}

\* the timer of connect() is pending (deepgram.ts:23-25)
Connecting == dgState = "connecting"

\* what is left of every wait that is not over and does not tick in steps
\* of 100 ms: the echo window, the waits of the rate-limited requests and
\* the timer of the recognizer's connect()
Deadlines ==
  {echoWindow - timeSinceAudio : x \in {y \in {0} : timeSinceAudio < echoWindow}}
    \cup {BackoffDelay(calls[c].attempt) - calls[c].waited : c \in Backoffs}
    \cup {dgTimeout : x \in {y \in {0} : Connecting}}

Earliest(D) == CHOOSE d \in D : \A e \in D : d <= e

\* Time passes; a timer that is due runs before time moves on.  While a
\* dispatch timer is pending the step is 100 ms.  With none pending nothing
\* but the end of the echo window, of the rate-limit waits and of the
\* connect timer depends on the clock, and the step runs to the earliest of
\* them.
Tick ==
  /\ \A t \in timers : t.left > 0
  /\ \A c \in Backoffs : calls[c].waited < BackoffDelay(calls[c].attempt)
  /\ Connecting => dgTimeout > 0
  /\ timers # {} \/ Deadlines # {}
  /\ LET d == IF timers # {} THEN 1 ELSE Earliest(Deadlines)
     IN /\ timers' = {[t EXCEPT !.left = @ - d] : t \in timers}
        /\ timeSinceAudio' = IF timeSinceAudio + d < echoWindow
                             THEN timeSinceAudio + d ELSE echoWindow
        /\ calls' = [c \in DOMAIN calls |->
                       IF c \in Backoffs
                       THEN [calls[c] EXCEPT !.waited = @ + d]
                       ELSE calls[c]]
        /\ dgTimeout' = IF Connecting THEN dgTimeout - d ELSE dgTimeout
  /\ UNCHANGED <<provider, lastFire, streamId, startSent, currentAgentText, lastTranscript, similar, audioIn, audioOut, dgSent, cleanups, plivoReadyState, registered, dgState,
                 conversationHistory, isProcessing, transcriptBuffer,
                 silenceTimeout, armed, isSpeaking, tts, socks, out>>

\* generate() returns (part_006:102 or :109) and respond continues
\* (part_001:171-184): history push, trim, speak
LLMReturn(c, response) ==
  /\ c \in DOMAIN calls
  /\ calls[c].pc = "generate"
  /\ NeedsSocket(World) => Len(socks) < MaxSocks
  /\ LET W1 == [World EXCEPT
                  !.conversationHistory = PushHistory(@, calls[c].msg, response)]
     IN SetWorld(speak(W1, c))
  /\ UNCHANGED <<provider, lastFire, streamId, startSent, currentAgentText, lastTranscript, similar, audioIn, audioOut, dgSent, dgTimeout, cleanups, plivoReadyState, registered, dgState,
                 transcriptBuffer, silenceTimeout, timers, armed>>

\* generate() throws (part_006:104); respond's catch and finally run
LLMThrow(c) ==
  /\ c \in DOMAIN calls
  /\ calls[c].pc = "generate"
  /\ SetWorld(RespondFinally(World, c))
  /\ UNCHANGED <<provider, lastFire, streamId, startSent, currentAgentText, lastTranscript, similar, audioIn, audioOut, dgSent, dgTimeout, cleanups, plivoReadyState, registered, dgState,
                 transcriptBuffer, silenceTimeout, timers, armed>>


\* for (let attempt = 0; attempt < maxRetries; attempt++) (part_006:34): the
\* test made after attempt++
MoreAttempts(attempt) == attempt < maxRetries

\* the next turn of the loop: fetch() is called again (part_006:36)
NextAttempt(cl) ==
  [cl EXCEPT !.pc = "generate", !.attempt = @ + 1, !.waited = 0,
             !.requests = @ + 1]

\* the response has status 429 (part_006:50-53): the wait is started
LLMRateLimited(c) ==
  /\ c \in DOMAIN calls
  /\ calls[c].pc = "generate"
  /\ calls' = [calls EXCEPT ![c].pc = "backoff", ![c].waited = 0]
  /\ UNCHANGED <<provider, lastFire, streamId, startSent, currentAgentText, lastTranscript, similar, audioIn, audioOut, dgSent, dgTimeout, cleanups, plivoReadyState, registered, dgState,
                 conversationHistory, isProcessing, transcriptBuffer,
                 silenceTimeout, timers, armed, isSpeaking, timeSinceAudio,
                 tts, socks, out>>

\* the wait is over (part_006:53-54): continue; the loop either calls
\* fetch() again or ends, and then generate() returns the fixed reply
\* (part_006:109) and respond goes on with it (part_001:171-184)
BackoffElapsed(c) ==
  /\ c \in DOMAIN calls
  /\ calls[c].pc = "backoff"
  /\ calls[c].waited = BackoffDelay(calls[c].attempt)
  /\ IF MoreAttempts(calls[c].attempt + 1)
     THEN /\ calls' = [calls EXCEPT ![c] = NextAttempt(@)]
          /\ UNCHANGED <<conversationHistory, isProcessing, isSpeaking,
                         timeSinceAudio, tts, socks, out>>
     ELSE /\ NeedsSocket(World) => Len(socks) < MaxSocks
          /\ LET W1 == [World EXCEPT
                          !.conversationHistory =
                            PushHistory(@, calls[c].msg, Fallback)]
             IN SetWorld(speak(W1, c))
  /\ UNCHANGED <<provider, lastFire, streamId, startSent, currentAgentText, lastTranscript, similar, audioIn, audioOut, dgSent, dgTimeout, cleanups, plivoReadyState, registered, dgState,
                 transcriptBuffer, silenceTimeout, timers, armed>>

\* fetch() rejects or the status is an error other than 429
\* (part_006:57-60); the catch (part_006:103-106) rethrows on the last
\* attempt, and respond's catch and finally run; otherwise the loop goes on
LLMError(c) ==
  /\ c \in DOMAIN calls
  /\ calls[c].pc = "generate"
  /\ IF calls[c].attempt = maxRetries - 1
     THEN SetWorld(RespondFinally(World, c))
     ELSE /\ calls' = [calls EXCEPT ![c] = NextAttempt(@)]
          /\ UNCHANGED <<conversationHistory, isProcessing, isSpeaking,
                         timeSinceAudio, tts, socks, out>>
  /\ UNCHANGED <<provider, lastFire, streamId, startSent, currentAgentText, lastTranscript, similar, audioIn, audioOut, dgSent, dgTimeout, cleanups, plivoReadyState, registered, dgState,
                 transcriptBuffer, silenceTimeout, timers, armed>>


(* ------------------------ synthesis connections ------------------------ *)
Rest == <<provider, lastFire, streamId, startSent, currentAgentText, lastTranscript, similar, audioIn, audioOut, dgSent, dgTimeout, cleanups, plivoReadyState, registered, dgState, transcriptBuffer,
          silenceTimeout, timers, armed>>

\* resolve() of the pending connect(): speak continues in the same turn of
\* the event loop
Resolve(W, s) ==
  IF W.socks[s].prom = "pending"
  THEN SpeakContinue([W EXCEPT !.socks[s] = SettleSock(@)], W.socks[s].call)
  ELSE W

\* reject(...) of the pending connect(): speak's catch runs
Reject(W, s) ==
  IF W.socks[s].prom = "pending"
  THEN SpeakCatch([W EXCEPT !.socks[s] = SettleSock(@)], W.socks[s].call)
  ELSE W

\* ws 'open' handler (part_005:142-155; elevenlabs.ts:43-64, which also
\* resolves connect())
WsOpen(s) ==
  /\ s \in DOMAIN socks
  /\ socks[s].st = "connecting"
  /\ LET W1 == [World EXCEPT !.socks[s].st = "open"]
         W2 == IF W1.socks[s].cur
               THEN [W1 EXCEPT !.tts.isConnected = TRUE] ELSE W1
     IN SetWorld(IF provider = "elevenlabs" THEN Resolve(W2, s) ELSE W2)
  /\ UNCHANGED Rest

\* HeyPixa status 'config_updated' (part_005:167-171)
WsConfigUpdated(s) ==
  /\ s \in DOMAIN socks
  /\ provider = "heypixa"
  /\ socks[s].st \in {"open", "closing"}
  /\ ~socks[s].configured
  /\ LET W1 == [World EXCEPT !.socks[s].configured = TRUE]
         W2 == IF W1.socks[s].cur
               THEN [W1 EXCEPT !.tts.isConfigured = TRUE] ELSE W1
     IN SetWorld(Resolve(W2, s))
  /\ UNCHANGED Rest

\* a binary frame (part_005:158-161) or an audio message (elevenlabs.ts:70-75)
\* reaches onAudioChunk (part_001:226-234)
WsAudio(s) ==
  /\ s \in DOMAIN socks
  /\ socks[s].st \in {"open", "closing"}
  /\ socks[s].synth > 0
  /\ SetWorld(sendAudio(World, convertAudio(provider, NativeChunk(provider)), s))
  /\ UNCHANGED Rest

\* status 'done' (part_005:172-174) or isFinal (elevenlabs.ts:77-80) reaches
\* onComplete (part_001:235-240); status 'error' (part_005:175-177) or
\* message.error (elevenlabs.ts:82-85) reaches onError (part_001:241-244).
\* Both callbacks clear isSpeaking and settle speak()'s promise, which line
\* 252 has settled already, so the two ends of a stream act alike.
WsDone(s) ==
  /\ s \in DOMAIN socks
  /\ socks[s].st \in {"open", "closing"}
  /\ socks[s].synth > 0
  /\ SetWorld([World EXCEPT !.socks[s].synth = @ - 1, !.isSpeaking = FALSE])
  /\ UNCHANGED Rest

\* ws 'error' then 'close' (part_005:185-198, elevenlabs.ts:91-102)
WsError(s) ==
  /\ s \in DOMAIN socks
  /\ socks[s].st \in {"connecting", "open", "closing"}
  /\ LET W1 == SetFlags(World, s, FALSE, FALSE)
         W2 == [W1 EXCEPT !.socks[s] = ClosedSock(@), !.isSpeaking = FALSE]
     IN SetWorld(Reject(W2, s))
  /\ UNCHANGED Rest

\* ws 'close' without error (part_005:194-198, elevenlabs.ts:99-102): the
\* service closed the socket or the closing handshake finished
WsClose(s) ==
  /\ s \in DOMAIN socks
  /\ socks[s].st \in {"open", "closing"}
  /\ LET W1 == SetFlags(World, s, FALSE, FALSE)
     IN SetWorld([W1 EXCEPT !.socks[s] = ClosedSock(@)])
  /\ UNCHANGED Rest

\* the 10 s connect timer (part_005:137-140, elevenlabs.ts:38-41); it is
\* cleared only by config_updated / open / error, so it is live exactly while
\* the promise is pending.  Its delay is not counted: it may expire at any
\* moment of a pending connect.
ConnectTimeout(s) ==
  /\ s \in DOMAIN socks
  /\ socks[s].prom = "pending"
  /\ SetWorld(Reject(World, s))
  /\ UNCHANGED Rest

(* --------------------------- transport, teardown ----------------------- *)
\* DeepgramSTT.sendAudio (deepgram.ts:70-78): the bytes are written when the
\* connection object exists and isConnected is true, whatever they are
DeepgramSendAudio(sent, bytes) ==
  IF dgState \in {"open", "error"}
  THEN [n |-> 1 - sent.n, last |-> bytes]
  ELSE sent

\* the frames the transport can deliver: a media event with a payload of
\* the inbound track, a start event, a start event without its start
\* object, an event the switch does not know, text that is not JSON, and
\* blank text
PlivoFrames == {"media", "start", "nofields", "unknown", "nonjson", "blank"}

\* handlePlivoMessage (part_001:56-95) for every frame but 'stop'; the
\* server passes no isBinary (part_003:133), so the first branch is never
\* taken.
\*   start    -> session.streamId and session.callId are set   (lines 69-71)
\*   media    -> deepgram.sendAudio(base64ToBuffer(payload))   (lines 76-80)
\*   nofields -> message.start.streamId throws a TypeError, which the catch
\*               swallows                                      (lines 70, 88-94)
\*   nonjson  -> JSON.parse throws a SyntaxError and the catch hands the
\*               raw bytes to deepgram.sendAudio               (lines 66, 88-92)
handlePlivoMessage(frame) ==
  /\ dgSent' = CASE frame = "media" -> DeepgramSendAudio(dgSent, "audio")
                 [] frame = "nonjson" -> DeepgramSendAudio(dgSent, "text")
                 [] OTHER -> dgSent
  /\ streamId' = IF frame = "start" THEN StartStreamId ELSE streamId
  /\ UNCHANGED <<provider, lastFire, currentAgentText, lastTranscript, similar, audioIn, audioOut, dgTimeout, cleanups, plivoReadyState, registered,
                 dgState, conversationHistory, isProcessing,
                 transcriptBuffer, silenceTimeout, timers, armed, isSpeaking,
                 timeSinceAudio, tts, socks, calls, out>>

\* ws.on('message') of the server (part_003:132-134)
PlivoMessage(frame) ==
  /\ registered
  /\ plivoReadyState \in {"OPEN", "CLOSING"}
  /\ startSent' = (startSent \/ frame = "start")
  /\ handlePlivoMessage(frame)

\* a frame that arrives before the server has attached its 'message'
\* listener, which it does after `await callHandler.initialize()`
\* (part_003:129-134): the socket emits 'message' to no listener
PlivoMessageUnheard(frame) ==
  /\ ~registered
  /\ plivoReadyState = "OPEN"
  /\ startSent' = (startSent \/ frame = "start")
  /\ UNCHANGED <<provider, lastFire, streamId, currentAgentText, lastTranscript, similar, audioIn, audioOut, dgSent, dgTimeout,
                 cleanups, plivoReadyState, registered, dgState,
                 conversationHistory, isProcessing, transcriptBuffer,
                 silenceTimeout, timers, armed, isSpeaking, timeSinceAudio,
                 tts, socks, calls, out>>

\* the message handler of a synthesis connection given text that is not
\* JSON, or JSON with a status it does not know or without the fields it
\* reads (part_005:164-182, elevenlabs.ts:67-88): JSON.parse or the property
\* read throws inside the try, or no branch matches
WsUnexpected(s) ==
  /\ s \in DOMAIN socks
  /\ socks[s].st \in {"open", "closing"}
  /\ UNCHANGED vars

\* cleanup (part_001:289-293) with DeepgramSTT.close (deepgram.ts:81-87)
cleanup ==
  /\ timers' = ClearTimeout(timers, silenceTimeout)
  /\ dgState' = CASE dgState \in {"connecting", "open", "error"} -> "closing"
                  [] dgState = "lost" -> "closed"
                  [] OTHER -> dgState
  /\ SetWorld(TtsCloseOpt(World))
  /\ cleanups' = IF cleanups < MaxCleanups THEN cleanups + 1 ELSE cleanups
  /\ UNCHANGED <<provider, lastFire, streamId, startSent, currentAgentText, lastTranscript, similar, audioIn, audioOut, dgSent, dgTimeout, registered, transcriptBuffer,
                 silenceTimeout, armed>>

\* 'stop' control event (part_001:83-86)
PlivoStop ==
  /\ registered
  /\ plivoReadyState = "OPEN"
  /\ cleanup
  /\ UNCHANGED plivoReadyState

\* ws.on('error') of the server (part_003:142-145): the library leaves OPEN
\* before it emits 'error'; 'close' follows as an event of its own
PlivoError ==
  /\ registered
  /\ plivoReadyState = "OPEN"
  /\ plivoReadyState' = "CLOSING"
  /\ cleanup

\* the peer starts closing: readyState leaves OPEN before 'close' is emitted
PlivoClosing ==
  /\ plivoReadyState = "OPEN"
  /\ plivoReadyState' = "CLOSING"
  /\ UNCHANGED <<provider, lastFire, streamId, startSent, currentAgentText, lastTranscript, similar, audioIn, audioOut, dgSent, dgTimeout, cleanups, registered, dgState, conversationHistory,
                 isProcessing, transcriptBuffer, silenceTimeout, timers, armed,
                 isSpeaking, timeSinceAudio, tts, socks,
                 calls, out>>

\* ws.on('close') of the server (part_003:137-140)
PlivoClose ==
  /\ registered
  /\ plivoReadyState \in {"OPEN", "CLOSING"}
  /\ plivoReadyState' = "CLOSED"
  /\ cleanup

Flags == {TRUE, FALSE}

Next ==
  \/ DeepgramOpen
  \/ \E tr \in Texts, f \in Flags, sf \in Flags :
       DeepgramTranscript(tr, f, sf) /\ armed' <= MaxTimers
  \/ \E t \in timers : TimerFire(t)
  \/ Tick
  \/ \E c \in DOMAIN calls : LLMReturn(c, Reply)
  \/ \E c \in DOMAIN calls : LLMThrow(c)
  \/ \E s \in 1..MaxSocks : WsOpen(s)
  \/ \E s \in 1..MaxSocks : WsConfigUpdated(s)
  \/ \E s \in 1..MaxSocks : WsAudio(s)
  \/ \E s \in 1..MaxSocks : WsDone(s)
  \/ \E s \in 1..MaxSocks : WsError(s)
  \/ \E s \in 1..MaxSocks : WsClose(s)
  \/ \E s \in 1..MaxSocks : ConnectTimeout(s)

Spec == Init /\ [][Next]_vars

\* the steps of the session within the smaller bounds
NextTurns ==
  /\ Next
  /\ armed' <= MaxSmallTimers
  /\ Len(socks') <= MaxSmallSocks

SpecTurns == Init /\ [][NextTurns]_vars

\* the k-th answer of a long conversation, different for every k
ReplyOf(k) == [i \in 1..k |-> "r"]

\* the number of answers given so far in a long conversation, read off the
\* last one
Answered ==
  IF conversationHistory = <<>> THEN 0
  ELSE Len(conversationHistory[Len(conversationHistory)].content)

\* the session over a long conversation: the caller says one thing, turn
\* after turn, and speaks again only when no dispatch timer is pending and
\* no request is marked as being processed; every answer is different
NextHistory ==
  /\ \/ DeepgramOpen
     \/ \E f \in Flags, sf \in Flags :
          /\ timers = {} /\ ~isProcessing
          /\ DeepgramTranscript(Hey, f, sf)
     \/ \E t \in timers : TimerFire(t)
     \/ Tick
     \/ \E c \in DOMAIN calls : LLMReturn(c, ReplyOf(Answered + 1))
     \/ \E c \in DOMAIN calls : LLMThrow(c)
     \/ \E s \in 1..MaxSocks : WsOpen(s)
     \/ \E s \in 1..MaxSocks : WsConfigUpdated(s)
     \/ \E s \in 1..MaxSocks : WsAudio(s)
     \/ \E s \in 1..MaxSocks : WsDone(s)
     \/ \E s \in 1..MaxSocks : WsError(s)
     \/ \E s \in 1..MaxSocks : WsClose(s)
     \/ \E s \in 1..MaxSocks : ConnectTimeout(s)
  /\ armed' <= MaxTurns
  /\ Len(socks') <= MaxSmallSocks

SpecHistory == Init /\ [][NextHistory]_vars

\* the same session while the transport is closing: readyState has left
\* OPEN and 'close' has not been emitted yet
NextClosing ==
  \/ NextTurns
  \/ PlivoClosing

SpecClosing == Init /\ [][NextClosing]_vars

\* the first turn of the session, with the transport stopping, closing and
\* failing
NextTeardown ==
  \/ Next /\ armed' <= MaxTeardownTimers /\ Len(socks') <= MaxSmallSocks
  \/ PlivoStop
  \/ PlivoError
  \/ PlivoClosing
  \/ PlivoClose

SpecTeardown == Init /\ [][NextTeardown]_vars

\* the session with the larger number of timers and the smaller number of
\* connections, with the transport stopping, closing and failing
NextCall ==
  \/ Next /\ Len(socks') <= MaxSmallSocks
  \/ PlivoStop
  \/ PlivoError
  \/ PlivoClosing
  \/ PlivoClose

SpecCall == Init /\ [][NextCall]_vars

\* the first turn of the session with the recognizer failing to connect,
\* failing and closing, and the transport stopping, closing and failing
NextRecognizer ==
  \/ NextTeardown
  \/ DeepgramTimeout
  \/ DeepgramConnectError
  \/ DeepgramError
  \/ DeepgramClose

SpecRecognizer == Init /\ [][NextRecognizer]_vars

\* the same, with the recognizer connection opening late
NextLateOpen ==
  \/ NextRecognizer
  \/ DeepgramLateOpen

SpecLateOpen == Init /\ [][NextLateOpen]_vars

\* the first turn of the session with every kind of frame arriving from
\* the transport and from the synthesis, and the recognizer failing
NextMessages ==
  \/ NextRecognizer
  \/ \E frame \in PlivoFrames : PlivoMessage(frame)
  \/ \E s \in 1..MaxSocks : WsUnexpected(s)

SpecMessages == Init /\ [][NextMessages]_vars

\* the same, with the transport sending frames from the moment the socket
\* is accepted
NextStart ==
  \/ NextMessages
  \/ \E frame \in PlivoFrames : PlivoMessageUnheard(frame)

SpecStart == Init /\ [][NextStart]_vars

\* what a synthesis connection that is being opened or is open goes on to
\* do: it opens, is configured, delivers the end of a stream, fails, closes,
\* or the timer of its connect() runs out
SynthesisEvent ==
  \E s \in 1..MaxSocks :
    \/ WsOpen(s)
    \/ WsConfigUpdated(s)
    \/ WsDone(s)
    \/ WsError(s)
    \/ WsClose(s)
    \/ ConnectTimeout(s)

\* the event loop runs a timer that is due, time passes, every fetch() of
\* the language model settles, and every synthesis connection goes on to its
\* next event.  Nothing obliges the caller to speak or the synthesis to end
\* a stream in one way rather than another.
Scheduling ==
  /\ WF_vars(Tick)
  /\ WF_vars(\E t \in timers : TimerFire(t))
  /\ WF_vars(\E c \in DOMAIN calls : LLMReturn(c, Reply) \/ LLMThrow(c))
  /\ WF_vars(SynthesisEvent)

SpecSpeaking == Init /\ [][NextTurns]_vars /\ Scheduling

(* ------------------------- the audio utilities ------------------------- *)
\* everything but the two buffers
SessionState ==
  <<provider, lastFire, streamId, startSent, dgSent, dgTimeout, cleanups, plivoReadyState, registered,
    dgState, conversationHistory, isProcessing, transcriptBuffer,
    silenceTimeout, timers, armed, isSpeaking, timeSinceAudio, tts, socks,
    calls, out>>

Session == <<currentAgentText, lastTranscript, similar, SessionState>>

\* a session as constructed, and any buffer
InitAudio ==
  /\ provider \in {"heypixa", "elevenlabs"}
  /\ lastFire = "none"
  /\ streamId = Unset
  /\ startSent = FALSE
  /\ currentAgentText = <<>>
  /\ lastTranscript = <<>>
  /\ similar = "none"
  /\ audioIn \in Buffers
  /\ audioOut = NoOutput
  /\ plivoReadyState = "OPEN"
  /\ registered = FALSE
  /\ cleanups = 0
  /\ dgState = "connecting"
  /\ dgTimeout = connectTimeout
  /\ dgSent = [n |-> 0, last |-> "none"]
  /\ conversationHistory = <<>>
  /\ isProcessing = FALSE
  /\ transcriptBuffer = <<>>
  /\ silenceTimeout = 0
  /\ timers = {}
  /\ armed = 0
  /\ isSpeaking = FALSE
  /\ timeSinceAudio = echoWindow
  /\ tts = NullTts
  /\ socks = <<>>
  /\ calls = <<>>
  /\ out = [n |-> 0, last |-> NoMessage, played |-> FALSE]

\* resampleLanczos applied to the buffer, for the rates whose ratio is whole
ResampleLanczos(sourceRate, targetRate) ==
  /\ sourceRate % targetRate = 0
  /\ audioOut' = resampleLanczosPCM(audioIn, sourceRate, targetRate)
  /\ UNCHANGED <<audioIn, Session>>

\* resamplePCM16Linear applied to the buffer; between different rates only
\* to whole samples
ResampleLinear(sourceRate, targetRate) ==
  /\ sourceRate = targetRate \/ ~audioIn.odd
  /\ audioOut' = resamplePCM16Linear(audioIn, sourceRate, targetRate)
  /\ UNCHANGED <<audioIn, Session>>

\* the converter speak() selects (part_001:207-209) applied to the buffer
PrepareAudio ==
  /\ audioOut' = IF provider = "elevenlabs"
                 THEN prepareElevenLabsAudioForPlivoPCM(audioIn)
                 ELSE prepareAudioForPlivoPCM(audioIn)
  /\ UNCHANGED <<audioIn, Session>>

\* another buffer is given
NextBuffer(buffer) ==
  /\ audioIn' = buffer
  /\ audioOut' = NoOutput
  /\ UNCHANGED Session

NextAudio ==
  \/ \E sourceRate \in Rates, targetRate \in Rates :
       ResampleLanczos(sourceRate, targetRate)
  \/ \E sourceRate \in Rates, targetRate \in Rates :
       ResampleLinear(sourceRate, targetRate)
  \/ PrepareAudio
  \/ \E buffer \in Buffers : NextBuffer(buffer)

SpecAudio == InitAudio /\ [][NextAudio]_vars

(* ------------------------ the similarity check -------------------------- *)
Letters == {"h", "H", " "}

TextsUpTo(n) == UNION {[1..k -> Letters] : k \in 0..n}

\* the session while the agent says something and a transcript arrives
InitSimilar ==
  /\ provider \in {"heypixa", "elevenlabs"}
  /\ lastFire = "none"
  /\ streamId = Unset
  /\ startSent = FALSE
  /\ currentAgentText \in TextsUpTo(MaxAgentLen)
  /\ lastTranscript \in TextsUpTo(MaxTranscriptLen)
  /\ similar = "none"
  /\ audioIn = EmptyBuffer
  /\ audioOut = NoOutput
  /\ plivoReadyState = "OPEN"
  /\ registered = FALSE
  /\ cleanups = 0
  /\ dgState = "connecting"
  /\ dgTimeout = connectTimeout
  /\ dgSent = [n |-> 0, last |-> "none"]
  /\ conversationHistory = <<>>
  /\ isProcessing = FALSE
  /\ transcriptBuffer = <<>>
  /\ silenceTimeout = 0
  /\ timers = {}
  /\ armed = 0
  /\ isSpeaking = FALSE
  /\ timeSinceAudio = echoWindow
  /\ tts = NullTts
  /\ socks = <<>>
  /\ calls = <<>>
  /\ out = [n |-> 0, last |-> NoMessage, played |-> FALSE]

\* what shouldInterrupt hands to isSimilar (call-handler.ts:358, 379)
Trimmed == ToLower(Trim(lastTranscript))
LoweredAgentText == ToLower(currentAgentText)

\* shouldInterrupt reaches its similarity check (call-handler.ts:357-383):
\* the trimmed transcript has three characters or more and the agent text
\* is not empty
SimilarityCheck ==
  /\ Len(Trimmed) >= minInterruptLength
  /\ Truthy(LoweredAgentText)
  /\ similar' = IF isSimilar(Trimmed, LoweredAgentText) THEN "true" ELSE "false"
  /\ UNCHANGED <<currentAgentText, lastTranscript, audioIn, audioOut, SessionState>>

\* the synthesis completes and the agent text is forgotten
\* (call-handler.ts:460)
AgentTextCleared ==
  /\ Truthy(currentAgentText)
  /\ currentAgentText' = <<>>
  /\ similar' = "none"
  /\ UNCHANGED <<lastTranscript, audioIn, audioOut, SessionState>>

NextSimilar == SimilarityCheck \/ AgentTextCleared

SpecSimilar == InitSimilar /\ [][NextSimilar]_vars

\* the session with the attempts of generate() spelled out: every fetch()
\* answers, is rate limited or fails; the caller says one thing
NextRetry ==
  /\ \/ DeepgramOpen
     \/ \E f \in Flags, sf \in Flags :
          DeepgramTranscript(Hey, f, sf)
     \/ \E t \in timers : TimerFire(t)
     \/ Tick
     \/ \E c \in DOMAIN calls : LLMReturn(c, Reply)
     \/ \E c \in DOMAIN calls : LLMRateLimited(c)
     \/ \E c \in DOMAIN calls : BackoffElapsed(c)
     \/ \E c \in DOMAIN calls : LLMError(c)
     \/ \E s \in 1..MaxSocks : WsOpen(s)
     \/ \E s \in 1..MaxSocks : WsConfigUpdated(s)
     \/ \E s \in 1..MaxSocks : WsAudio(s)
     \/ \E s \in 1..MaxSocks : WsDone(s)
     \/ \E s \in 1..MaxSocks : WsError(s)
     \/ \E s \in 1..MaxSocks : WsClose(s)
     \/ \E s \in 1..MaxSocks : ConnectTimeout(s)
  /\ armed' <= MaxTimers
  /\ Len(socks') <= MaxSocks

SpecRetry == Init /\ [][NextRetry]_vars

(* ------------------------------- claims -------------------------------- *)
\* a timer with the handle of t is still pending after the step
StillPending(t) == \E u \in timers' : u.id = t.id

\* the step hands a new request to the language model
Dispatches == Len(calls') > Len(calls)

\* the request the step issues carries the buffered text
DispatchesBuffer ==
  /\ Len(calls') = Len(calls) + 1
  /\ calls'[Len(calls')].msg = transcriptBuffer
  /\ calls'[Len(calls')].pc = "generate"

\* turn detection accepts the event: it passes the recognizer's blank
\* filter, the echo gate and, while the agent speaks, the barge-in test
Accepted(tr, f, sf) ==
  /\ DeepgramTranscript(tr, f, sf)
  /\ Truthy(Trim(tr))
  /\ timeSinceAudio >= echoWindow
  /\ isSpeaking => (sf /\ shouldInterrupt(tr))

FinalAccepted == \E tr \in Texts, sf \in Flags : Accepted(tr, TRUE, sf)

TranscriptAccepted == \E tr \in Texts, f \in Flags, sf \in Flags : Accepted(tr, f, sf)

\* C1: every playAudio frame declares the format of its payload: the content
\* type is the negotiated 16-bit linear PCM, and the declared sample rate is
\* both the rate of the samples in the payload and the rate negotiated for
\* the stream, whichever synthesis provider produced the chunk.
C1_DeclaredFormatIsPayloadFormat ==
  out.last.event = "playAudio" =>
    /\ out.last.contentType = negotiatedContentType
    /\ out.last.sampleRate = out.last.payload.rate
    /\ out.last.sampleRate = negotiatedSampleRate

\* the respond() invocations whose generate() has not returned
InFlight == {c \in DOMAIN calls : calls[c].pc = "generate"}

\* C2: at most one language-model request of the session is in flight.
C2_OneRequestInFlight == Cardinality(InFlight) <= 1

\* connections with a synthesis whose end has not been received
Producing ==
  {s \in DOMAIN socks : socks[s].st \in {"open", "closing"} /\ socks[s].synth > 0}

\* connections the service can still write to the session on
Live == {s \in DOMAIN socks : socks[s].st \in {"connecting", "open", "closing"}}

\* C3: at most one synthesis stream is producing audio, and no second
\* connection exists while an earlier one can still deliver chunks.
C3_OneSynthesisLive ==
  /\ Cardinality(Producing) <= 1
  /\ \A s \in Producing : Live \subseteq {s}

\* the step is an accepted barge-in: the agent was speaking and the
\* interrupt timer has just been armed
AcceptedBargeIn ==
  /\ isSpeaking
  /\ armed' = armed + 1
  /\ \E t \in timers' : t.kind = "interrupt" /\ t.id = silenceTimeout'

\* no connection to the synthesis service is open or being opened
NoOpenConnection(ss) ==
  \A s \in DOMAIN ss : ss[s].st \notin {"connecting", "open"}

ClearAudioWritten == out'.n # out.n /\ out'.last.event = "clearAudio"

\* C4 (as stated): the step of an accepted barge-in writes clearAudio to the
\* caller and closes the synthesis connection, and it issues no request:
\* the replacement turn is dispatched by a later step.
C4_BargeInClearsAndCloses ==
  [][AcceptedBargeIn =>
       /\ ClearAudioWritten
       /\ NoOpenConnection(socks')
       /\ ~Dispatches]_vars

\* C4 (amended): the step of an accepted barge-in closes the synthesis
\* connection and, if the telephony socket is open, writes clearAudio to
\* it (otherwise it writes nothing); it issues no request: the replacement
\* turn is dispatched by a later step.
C4_BargeInClosesAndClearsIfOpen ==
  [][AcceptedBargeIn =>
       /\ IF plivoOpen THEN ClearAudioWritten ELSE out' = out
       /\ NoOpenConnection(socks')
       /\ ~tts'.live
       /\ ~Dispatches]_vars

\* C4 witness: the replacement turn of a barge-in has been dispatched and
\* the last frame written to the caller is the clearAudio of that barge-in.
C4_Witness ==
  /\ \E c \in DOMAIN calls :
        calls[c].origin = "interrupt" /\ calls[c].pc = "generate"
  /\ out.last.event = "clearAudio"
  /\ NoOpenConnection(socks)

\* C5: no chunk that arrives on a connection the session has closed is
\* forwarded to the caller as playAudio.
C5_NoChunkAfterClose ==
  out.last.event = "playAudio" => ~out.last.afterClose

\* C6: the result of a request made stale by a barge-in or a newer turn is
\* discarded: the step in which it arrives appends nothing to the history
\* and starts no synthesis.
C6_StaleResultDiscarded ==
  [][\A c \in DOMAIN calls :
       (calls[c].pc = "generate" /\ calls[c].stale /\ calls'[c].pc # "generate")
         => /\ conversationHistory' = conversationHistory
            /\ socks' = socks
            /\ isSpeaking' = isSpeaking]_vars

C8_SecondFinalCancelsFirst ==
  [][\A tr \in Texts, sf \in Flags :
       DeepgramTranscript(tr, TRUE, sf) =>
         \A t \in timers :
           (t.kind = "silence" /\ t.left > 0) =>
              /\ ~StillPending(t)
              /\ transcriptBuffer' = tr
              /\ ~Dispatches]_vars

\* everything but the buffered text and the pending timers
SessionBesidesBuffer ==
  <<provider, lastFire, streamId, startSent, currentAgentText, lastTranscript, similar, audioIn, audioOut, dgSent, dgTimeout, cleanups, plivoReadyState, registered, dgState, conversationHistory,
    isProcessing, silenceTimeout, armed, isSpeaking, timeSinceAudio, tts,
    socks, calls, out>>

C10_NoBlankNoOverlappingDispatch ==
  [][Dispatches =>
       /\ Truthy(Trim(calls'[Len(calls')].msg))
       /\ InFlight = {}]_vars

\* the step is a barge-in: clearAudio is written to the caller, or the
\* interrupt timer is armed while the agent is speaking
BargeIn == ClearAudioWritten \/ AcceptedBargeIn

\* C11: while the agent is speaking, only an event with isEndOfSpeech = true
\* triggers a barge-in: every step that writes clearAudio or arms the
\* interrupt timer is the handling of such an event, received while the
\* agent was speaking; and an event with isEndOfSpeech = false received while
\* the agent is speaking changes nothing.
C11_BargeInOnlyOnEndOfSpeech ==
  [][/\ BargeIn =>
          /\ isSpeaking
          /\ \E tr \in Texts, f \in Flags : DeepgramTranscript(tr, f, TRUE)
          /\ \A tr \in Texts, f \in Flags : ~DeepgramTranscript(tr, f, FALSE)
     /\ \A tr \in Texts, f \in Flags :
          (isSpeaking /\ DeepgramTranscript(tr, f, FALSE)) => UNCHANGED vars]_vars

\* C11 witness: a barge-in has just stopped the agent: clearAudio is the
\* last frame written, the agent is no longer speaking and the interrupt
\* timer has its full delay left.
C11_Witness ==
  /\ out.last.event = "clearAudio"
  /\ ~isSpeaking
  /\ \E t \in timers :
       t.kind = "interrupt" /\ t.left = interruptDelay /\ t.id = silenceTimeout

\* turn detection acts in the step: text is put into the buffer, a dispatch
\* timer is armed, or a barge-in stops the agent
TurnDetectionActs ==
  \/ transcriptBuffer' # transcriptBuffer /\ Truthy(transcriptBuffer')
  \/ armed' > armed
  \/ BargeIn

\* what turn detection and dispatch keep
TurnState ==
  <<transcriptBuffer, silenceTimeout, timers, armed, isSpeaking, isProcessing,
    calls, out>>

\* the texts that pass the recognizer's blank filter
Spoken == {tr \in Texts : Truthy(Trim(tr))}

\* C12: an event that arrives within the echo window after the most recent
\* outbound audio send is discarded before turn detection: the buffer, the
\* dispatch timer, isSpeaking and isProcessing are unchanged and neither a
\* barge-in nor a dispatch results (a step within the window that changes
\* any of them is not the handling of an event), and no step within the
\* window puts text into the buffer, arms a timer or stops the agent.  An
\* event that arrives after the window is not discarded by the gate: it
\* reaches turn detection, which buffers it when the agent is silent and
\* takes it as a barge-in when the agent speaks and the event passes the
\* barge-in test (a step after the window that does not is not the handling
\* of such an event).
C12_EchoWindowDiscards ==
  [][/\ (timeSinceAudio < echoWindow /\ ~(UNCHANGED TurnState /\ ~Dispatches)) =>
          \A tr \in Texts, f \in Flags, sf \in Flags :
            ~DeepgramTranscript(tr, f, sf)
     /\ timeSinceAudio < echoWindow => ~TurnDetectionActs
     /\ (timeSinceAudio >= echoWindow /\ ~isSpeaking) =>
          \A tr \in Spoken, f \in Flags, sf \in Flags :
            transcriptBuffer' # tr => ~DeepgramTranscript(tr, f, sf)
     /\ (timeSinceAudio >= echoWindow /\ isSpeaking /\ ~AcceptedBargeIn) =>
          \A tr \in Spoken, f \in Flags :
            shouldInterrupt(tr) => ~DeepgramTranscript(tr, f, TRUE)]_vars

\* C12 witness: audio was sent to the caller, the echo window has passed
\* since the last send, and an event that arrived after it is in the buffer.
C12_Witness ==
  /\ out.last.event = "playAudio"
  /\ timeSinceAudio >= echoWindow
  /\ ~isSpeaking
  /\ Truthy(transcriptBuffer)

\* C13: as long as no audio frame has been sent in the session, the echo
\* guard discards nothing: the timing gate is not in force, so every event
\* goes on to turn detection.
C13_NoAudioNoDiscard == ~out.played => ~LikelyEcho

\* C13 witness: the first turn of the call went through turn detection and
\* was dispatched, and no audio frame has been sent in the session.
C13_Witness ==
  /\ ~out.played
  /\ Len(calls) = 1
  /\ calls[1].pc = "generate"
  /\ calls[1].origin = "silence"

\* the text handed to speak() last: respond pushes the response and speaks
\* it (part_001:173-184)
AgentText ==
  IF conversationHistory = <<>> THEN <<>>
  ELSE conversationHistory[Len(conversationHistory)].content

\* the transcript, trimmed and lower-cased, is a substring of the lower-cased
\* text of the agent
EchoOfAgent(tr) ==
  /\ Truthy(Trim(tr))
  /\ Truthy(AgentText)
  /\ Includes(ToLower(AgentText), ToLower(Trim(tr)))

\* C14: once the agent has sent audio of its text to the caller, an event
\* whose lower-cased text is a substring of that text is discarded as echo,
\* however long ago the last audio was sent and whether or not the agent is
\* still marked as speaking: it changes neither the buffer, the timers nor
\* the speaking and processing marks, and it stops or dispatches nothing.
C14_SubstringOfAgentSpeechDiscarded ==
  [][\A tr \in Texts, f \in Flags, sf \in Flags :
       (out.played /\ EchoOfAgent(tr) /\ DeepgramTranscript(tr, f, sf)) =>
          /\ UNCHANGED TurnState
          /\ ~Dispatches]_vars

\* C15: conversationHistory never holds more than 20 entries.
C15_HistoryAtMostCap == Len(conversationHistory) <= historyCap

\* C15 witness: more than ten turns have completed and the history is at
\* its cap.
C15_Witness ==
  /\ Answered > historyCap \div 2
  /\ Len(conversationHistory) = historyCap

\* the step completes a turn of the long conversation: generate() returns
\* the next answer to respond()
TurnCompletes == \E c \in DOMAIN calls : LLMReturn(c, ReplyOf(Answered + 1))

\* the pairs held, counted
Pairs(h) == Len(h) \div 2

\* in a conversation whose k-th answer is ReplyOf(k), the history holds the
\* last min(k, 10) answers, oldest first
HoldsLastAnswers ==
  \A i \in 1..Pairs(conversationHistory) :
    conversationHistory[2 * i].content
      = ReplyOf(Answered - Pairs(conversationHistory) + i)

\* C16: a completed turn appends its pair at the end and, once ten pairs are
\* held, drops exactly the oldest pair, the others keeping their order; so
\* after k > 10 completed turns the history holds exactly the last ten
\* pairs in their original order, and after the eleventh its length is 20
\* and the first pair is gone.
C16_HoldsLastTenPairs ==
  [][TurnCompletes =>
       LET n == Len(conversationHistory)
           n1 == Len(conversationHistory')
           dropped == n + 2 - n1
       IN /\ n1 = IF n + 2 > historyCap THEN historyCap ELSE n + 2
          /\ \A i \in 1..(n1 - 2) :
               conversationHistory'[i] = conversationHistory[i + dropped]
          /\ conversationHistory'[n1 - 1].role = "user"
          /\ \E c \in InFlight :
               conversationHistory'[n1 - 1].content = calls[c].msg
          /\ conversationHistory'[n1].role = "assistant"
          /\ Answered' = Answered + 1
          /\ Answered' > historyCap \div 2 => n1 = historyCap
          /\ HoldsLastAnswers']_vars

\* C16 witness: eleven turns have completed; the history holds the second to
\* the eleventh pair, in order.
C16_Witness ==
  conversationHistory =
    [i \in 1..historyCap |->
       IF i % 2 = 1
       THEN [role |-> "user", content |-> Hey]
       ELSE [role |-> "assistant", content |-> ReplyOf(i \div 2 + 1)]]

\* C17: conversationHistory has even length and alternates user, assistant,
\* starting with a user entry, also after trimming.
C17_HistoryAlternates ==
  /\ Len(conversationHistory) % 2 = 0
  /\ \A i \in DOMAIN conversationHistory :
       conversationHistory[i].role = IF i % 2 = 1 THEN "user" ELSE "assistant"

\* C17 witness: the history has been trimmed and still starts with a user
\* entry and ends with the assistant entry of the last turn.
C17_Witness ==
  /\ Answered > historyCap \div 2
  /\ conversationHistory[1].role = "user"
  /\ conversationHistory[Len(conversationHistory)].role = "assistant"
  /\ conversationHistory[Len(conversationHistory)].content = ReplyOf(Answered)

\* C18: the request a dispatch issues carries the system prompt, then the
\* whole conversationHistory as it stands at the dispatch, in stored order,
\* then the new user text; the first request of a call carries no history.
C18_RequestCarriesWholeHistory ==
  [][Dispatches =>
       LET r == calls'[Len(calls')]
       IN /\ Len(calls') = Len(calls) + 1
          /\ r.msg = transcriptBuffer
          /\ Len(r.messages) = Len(conversationHistory) + 2
          /\ r.messages[1] = [role |-> "system", content |-> systemPrompt]
          /\ \A i \in DOMAIN conversationHistory :
               r.messages[i + 1] = conversationHistory[i]
          /\ r.messages[Len(r.messages)] = [role |-> "user", content |-> r.msg]
          /\ calls = <<>> => Len(r.messages) = 2]_vars

\* C18 witness: a request is in flight that carries a full history of
\* twenty entries between the system prompt and the user text.
C18_Witness ==
  \E c \in DOMAIN calls :
    /\ calls[c].pc = "generate"
    /\ Len(calls[c].messages) = historyCap + 2
    /\ SubSeq(calls[c].messages, 2, historyCap + 1) = conversationHistory

\* the step is a call of cleanup(), whichever path it comes by
CleanupStep == PlivoStop \/ PlivoError \/ PlivoClose

\* C19: a call of cleanup() after an earlier one issues no close call the
\* earlier one issued: the recognizer is not asked to close again, the handle
\* the synthesis instance holds is not that of a connection the session has
\* closed already, and no such connection changes its state.
C19_SecondCleanupClosesNothingAgain ==
  [][(CleanupStep /\ cleanups >= 1) =>
       /\ dgState' = dgState
       /\ tts.ws # 0 => ~socks[tts.ws].closedByClient
       /\ \A s \in DOMAIN socks :
            socks[s].closedByClient => socks'[s].st = socks[s].st]_vars

\* C19 witness: cleanup() has run twice and the synthesis connection the
\* first call closed is still going through its closing handshake.
C19_Witness ==
  /\ cleanups = MaxCleanups
  /\ plivoReadyState = "CLOSED"
  /\ dgState = "closing"
  /\ tts.live /\ tts.ws = 0
  /\ \E s \in DOMAIN socks : socks[s].st = "closing" /\ socks[s].closedByClient

\* C20: when cleanup() completes, whichever path called it, no recognizer
\* or synthesis connection of the session is open or being opened and no
\* dispatch timer of the session is pending.
C20_CleanupReleasesEverything ==
  [][CleanupStep =>
       /\ dgState' \notin {"connecting", "open"}
       /\ NoOpenConnection(socks')
       /\ timers' = {}]_vars

\* C21: once cleanup() has run the session is closed for good: no later
\* step arms a timer, issues a request, opens a synthesis connection or
\* writes to the transport.
C21_ClosedIsTerminal ==
  [][cleanups >= 1 =>
       /\ armed' = armed
       /\ ~Dispatches
       /\ Len(socks') = Len(socks)
       /\ out' = out]_vars

\* a frame is written to the transport in the step
Written == out'.n # out.n

\* C22: while the telephony socket is not open nothing is written to it and
\* the time of the last audio send is not renewed, whatever the session does
\* in the step; an audio frame is written only to an open socket, every
\* audio frame written renews the time of the last send, and nothing else
\* renews it.
C22_ClosedTransportSkipsSend ==
  [][/\ ~plivoOpen => (out' = out /\ timeSinceAudio' >= timeSinceAudio)
     /\ Written => plivoOpen
     /\ (Written /\ out'.last.event = "playAudio") => timeSinceAudio' = 0
     /\ timeSinceAudio' < timeSinceAudio =>
          (Written /\ out'.last.event = "playAudio")]_vars

\* C22 witness: with the transport closing, a barge-in has stopped the agent
\* and armed its timer, and the clearAudio was skipped: the last frame
\* written is still an audio frame.
C22_Witness ==
  /\ plivoReadyState = "CLOSING"
  /\ out.last.event = "playAudio"
  /\ ~isSpeaking
  /\ \E t \in timers : t.kind = "interrupt" /\ t.id = silenceTimeout

\* generate() gives up on request c after the last rate-limited attempt
RateLimitExhausted(c) ==
  /\ calls[c].pc = "backoff"
  /\ calls[c].attempt = maxRetries - 1
  /\ calls'[c].pc # "backoff"

\* a synthesis of the reply of request c is started: a connection is opened
\* for it or the text is sent on the open one
SpeakStarted(c) ==
  \/ calls'[c].pc = "connect"
  \/ \E s \in DOMAIN socks : socks'[s].synth > socks[s].synth

\* C23: generate() issues at most three requests; after the rate-limited
\* attempt n it waits 2^n seconds before anything else; after the third
\* rate-limited attempt the fixed reply is what the request returns (it is
\* the answer stored in the history) and a synthesis of it is started.
C23_RetriesBackoffFallback ==
  [][\A c \in DOMAIN calls :
       /\ calls'[c].requests <= maxRetries
       /\ (calls[c].pc = "backoff" /\ calls'[c].pc # "backoff") =>
            calls[c].waited = 10 * 2^(calls[c].attempt)
       /\ (calls[c].pc = "backoff" /\ calls'[c].pc = "generate") =>
            /\ calls'[c].attempt = calls[c].attempt + 1
            /\ calls'[c].requests = calls[c].requests + 1
       /\ RateLimitExhausted(c) =>
            /\ conversationHistory' # <<>>
            /\ conversationHistory'[Len(conversationHistory')].content = Fallback
            /\ SpeakStarted(c)]_vars

\* the recognizer connection of an active call is lost: it reports an error
\* or closes without close() having been called
RecognizerLost == dgState = "open" /\ dgState' \in {"error", "lost"}

\* C24: when the recognizer connection of an active call reports an error
\* or closes unexpectedly, the teardown routine runs.
C24_RecognizerLossTearsDown ==
  [][RecognizerLost => cleanups' > cleanups]_vars

\* initialize() has failed
InitializeRejected == dgState \in {"timedout", "failed"}

\* C25: the recognizer's connect() gives up only when its timer of 10 s has
\* run out; from then on the transport socket is not open and the
\* transport handlers are not registered.
C25_ConnectTimeoutClosesTransport ==
  [][dgState' = "timedout" =>
       /\ ~registered'
       /\ plivoReadyState' # "OPEN"
       /\ cleanups' = 0
       /\ dgState # "timedout" =>
            (dgState = "connecting" /\ dgTimeout = 0)]_vars

C25_Witness ==
  /\ dgState = "timedout"
  /\ plivoReadyState = "CLOSING"
  /\ ~registered

\* something is written to the recognizer connection
Forwarded == dgSent' # dgSent

\* C26: a malformed or unexpected frame changes nothing in the session, is
\* passed on to no capability and does not end the session: whatever is
\* written to the recognizer is the audio of a media event, and a step that
\* writes to it leaves the session, the timers and the connections as they
\* were.
C26_MalformedDiscarded ==
  [][Forwarded =>
       /\ dgSent'.last = "audio"
       /\ UNCHANGED <<conversationHistory, transcriptBuffer, timers,
                      isSpeaking, isProcessing, cleanups, socks, out>>]_vars

\* C27: every synthesis that starts is followed by the session being idle
\* again, however the synthesis ends and whether or not the caller speaks.
C27_SpeakingEnds == isSpeaking ~> ~isSpeaking

\* C28: at most one dispatch timer, silence or interrupt, is pending at any
\* time.
C28_OneTimerPending == Cardinality(timers) <= 1

\* C29: resampling from a rate to the same rate returns the buffer it was
\* given, byte for byte, with the Lanczos and with the linear resampler.
C29_SameRateIsIdentity ==
  (audioOut.op \in {"lanczos", "linear"}
     /\ audioOut.sourceRate = audioOut.targetRate) =>
    /\ ~audioOut.thrown
    /\ audioOut.body = audioIn
    /\ audioOut.padBytes = 0

C29_Witness ==
  /\ audioOut.op = "lanczos"
  /\ audioOut.sourceRate = audioOut.targetRate
  /\ audioIn.odd
  /\ Len(audioIn.samples) >= 2

\* C30: of a PCM16 input of n samples the prepared audio holds
\* floor(n / (sourceRate / targetRate)) samples, each the input sample at
\* its place times the ratio, followed by zero bytes worth exactly 100 ms of
\* 16-bit samples at the target rate, on the HeyPixa and the ElevenLabs path.
C30_PreparedIsResampledPlusSilence ==
  (audioOut.op \in {"heypixa", "elevenlabs"} /\ ~audioIn.odd) =>
    LET n == Len(audioIn.samples)
        ratio == audioOut.sourceRate \div audioOut.targetRate
        k == (n * audioOut.targetRate) \div audioOut.sourceRate
    IN /\ ~audioOut.thrown
       /\ ~audioOut.body.odd
       /\ Len(audioOut.body.samples) = k
       /\ \A i \in 1..k :
            audioOut.body.samples[i] = audioIn.samples[(i - 1) * ratio + 1]
       /\ audioOut.padBytes = 2 * (audioOut.targetRate \div 10)

C30_Witness ==
  /\ audioOut.op = "heypixa"
  /\ ~audioIn.odd
  /\ Len(audioIn.samples) = 3
  /\ audioOut.body.samples = <<audioIn.samples[1]>>
  /\ audioIn.samples[1] # audioIn.samples[2]

\* the text of request c is handed to the synthesis: by speak() in the step
\* in which generate() returned, or when the connect() it waited for resolved
SynthesisBegins(c) ==
  /\ calls[c].pc \in {"generate", "backoff", "connect"}
  /\ \E s \in DOMAIN socks :
       /\ socks'[s].synth > socks[s].synth
       /\ calls[c].pc = "connect" => socks[s].call = c
  /\ calls'[c].pc = "done"

\* the pair of request c is in the history: pushed in this step, or pushed
\* before speak() began to wait for the connection
PairAppended(c) ==
  \/ calls[c].pc = "connect"
  \/ /\ Len(conversationHistory') >= 2
     /\ conversationHistory'[Len(conversationHistory') - 1] =
          [role |-> "user", content |-> calls[c].msg]
     /\ conversationHistory'[Len(conversationHistory')].role = "assistant"

\* C31: synthesis of a response begins only once its pair is in the
\* history, and isProcessing is true for as long as a dispatched request
\* that nothing superseded is waiting for its response.
C31_ResponseAppendedThenSpoken ==
  [][\A c \in DOMAIN calls' :
       /\ (c \in DOMAIN calls /\ SynthesisBegins(c)) => PairAppended(c)
       /\ (calls'[c].pc = "generate" /\ ~calls'[c].stale) => isProcessing']_vars

\* the texts long enough to interrupt
InterruptTexts == {tr \in Texts : shouldInterrupt(tr)}

\* the step issues a request from the interrupt timer for a text that can
\* interrupt
DispatchesInterrupt ==
  /\ Len(calls') = Len(calls) + 1
  /\ calls'[Len(calls')].origin = "interrupt"
  /\ calls'[Len(calls')].msg \in InterruptTexts

\* C32: an accepted barge-in ends the synthesis in the same step, and the
\* interrupt timer it arms stays pending for its 300 ms and then dispatches
\* the interrupting transcript, whatever arrives in between.
C32_BargeInDispatchedAfterGrace ==
  [][/\ AcceptedBargeIn => (~isSpeaking' /\ NoOpenConnection(socks'))
     /\ \A t \in timers :
          t.kind = "interrupt" =>
            /\ t.left > 0 => StillPending(t)
            /\ (t.left = 0 /\ ~StillPending(t)) => DispatchesInterrupt]_vars


\* the handling of an event with text tr would leave another text buffered
LeavesOtherText(tr, f, sf) ==
  ENABLED (DeepgramTranscript(tr, f, sf) /\ transcriptBuffer' # tr)

\* C33: every transcript event that reaches turn detection (it is not
\* discarded by the echo window) leaves its own text in the transcript
\* buffer, also while the agent is speaking and also when it is not final.
C33_LastTextWins ==
  ~LikelyEcho =>
    \A tr \in Spoken, f \in Flags, sf \in Flags : ~LeavesOtherText(tr, f, sf)


\* the history the request of call c was built from
HistoryAtDispatch(c) == SubSeq(calls[c].messages, 2, Len(calls[c].messages) - 1)

\* generate() of call c throws and respond() runs its catch and finally
GenerateFails(c) ==
  /\ calls[c].pc = "generate"
  /\ calls'[c].pc = "done"
  /\ LLMThrow(c)

\* C34: when the request of a turn fails, the history is what it was when
\* the turn was dispatched, the step starts no synthesis and closes none,
\* and isProcessing is false afterwards.
C34_FailedTurnLeavesNoTrace ==
  [][\A c \in DOMAIN calls :
       GenerateFails(c) =>
         /\ conversationHistory' = HistoryAtDispatch(c)
         /\ socks' = socks
         /\ isSpeaking' = isSpeaking
         /\ ~isProcessing']_vars


\* the first three words of the trimmed transcript, joined by single spaces
FirstWords == Join(Slice(SelectSeq(Split(Trimmed), Truthy), 3))

ClosedAttempt(s) ==
  /\ socks[s].closedByClient
  /\ ~socks[s].cur
  /\ tts.ws \in DOMAIN socks
  /\ tts.ws # s

\* an event of the attempt on socket s: its completion signal, its error
\* callback, or the timeout of its connect()
AttemptEvent(s) == WsDone(s) \/ WsError(s) \/ ConnectTimeout(s)

\* C36: no event of a synthesis attempt that a barge-in closed changes
\* isSpeaking, or closes or discards the synthesis connection, of a later
\* turn.
C36_ClosedAttemptLeavesLaterTurn ==
  [][\A s \in DOMAIN socks :
       (/\ ClosedAttempt(s)
        /\ \/ isSpeaking' # isSpeaking
           \/ tts' # tts
           \/ socks'[tts.ws].st # socks[tts.ws].st)
         => ~AttemptEvent(s)]_vars


\* C37: a 'start' sent at any time after the socket was accepted is
\* processed: once initialize() has completed and the listeners are
\* attached, streamId and callId are the ones it carried.
C37_StartCaptured ==
  (registered /\ startSent) => streamId = StartStreamId


\* initialize() has failed at some moment of the session
InitializeHasFailed == dgState \in {"timedout", "failed", "stray"}

\* the recognizer connection of the session is open
RecognizerConnectionOpen == dgState \in {"open", "error", "stray"}

\* C38: after initialize() has failed because the recognizer's connect()
\* timed out or reported an error, no recognizer connection of the session
\* is open, also when the socket opens after the timer has fired.
C38_NoConnectionAfterFailedInitialize ==
  InitializeHasFailed => ~RecognizerConnectionOpen


\* a timer that is due leaves the pending timers
Fires(t) == t.left = 0 /\ t \notin timers'

\* C39: the callback of a dispatch timer leaves the transcript buffer empty
\* whether or not respond() accepted the turn, and issues no request when
\* the session is processing or speaking or the buffer holds no text; a
\* request is issued only by such a callback, with the text buffered at that
\* moment, so the text of a rejected turn is not dispatched later.
C39_RejectedTurnDropped ==
  [][/\ \A t \in timers :
          (Fires(t) /\ TimerFire(t)) =>
            /\ transcriptBuffer' = <<>>
            /\ (isProcessing \/ isSpeaking \/ ~Truthy(Trim(transcriptBuffer)))
                 => ~Dispatches
     /\ Dispatches =>
          /\ \E t \in timers : Fires(t)
          /\ calls'[Len(calls')].msg = transcriptBuffer]_vars

\* C39 witness: a timer fired while a request was being processed; the
\* turn was rejected, the buffer is empty and no timer is left to dispatch
\* it.
C39_Witness ==
  /\ lastFire = "rejected"
  /\ transcriptBuffer = <<>>
  /\ timers = {}
  /\ isProcessing


\* the buffer was resampled between two rates whose ratio is whole
WholeRatioResampled ==
  /\ audioOut.op \in {"lanczos", "linear"}
  /\ audioOut.sourceRate # audioOut.targetRate
  /\ audioOut.sourceRate % audioOut.targetRate = 0
  /\ ~audioIn.odd

\* C40: for a source rate that is a whole multiple of the target rate,
\* output sample i of resampleLanczos is input sample i * ratio, and
\* resamplePCM16Linear makes the same output of the same input.
C40_LanczosEqualsLinearOnWholeRatio ==
  WholeRatioResampled =>
    LET ratio == audioOut.sourceRate \div audioOut.targetRate
        lanczos == resampleLanczosPCM(audioIn, audioOut.sourceRate,
                                      audioOut.targetRate)
        linear == resamplePCM16Linear(audioIn, audioOut.sourceRate,
                                      audioOut.targetRate)
    IN /\ ~audioOut.thrown
       /\ audioOut.body = lanczos.body
       /\ audioOut.body = linear.body
       /\ Len(audioOut.body.samples) = Len(audioIn.samples) \div ratio
       /\ \A i \in 1..Len(audioOut.body.samples) :
            audioOut.body.samples[i] = audioIn.samples[(i - 1) * ratio + 1]

\* C40 witness: the Lanczos resampler halved the rate of four samples that
\* differ from their neighbours; the result is the first and the third.
C40_Witness ==
  /\ WholeRatioResampled
  /\ audioOut.op = "lanczos"
  /\ audioOut.sourceRate = 2 * audioOut.targetRate
  /\ Len(audioIn.samples) = 4
  /\ audioIn.samples[2] # audioIn.samples[3]
  /\ audioIn.samples[3] # audioIn.samples[4]
  /\ audioOut.body.samples = <<audioIn.samples[1], audioIn.samples[3]>>

====
